---------------------------- MODULE Spec2Model ----------------------------
(***************************************************************************)
(* Model of the video-generation service of story-mode                     *)
(* (src/services/geminiService.ts): the payload built by performGeneration *)
(* for one step, the submit / poll / fetch cycle it runs against the       *)
(* remote service, and the story loop of generateVideo that chains steps;  *)
(* and of the form that produces the requests                              *)
(* (src/components/PromptForm.tsx): its state, its handlers and effects.   *)
(*                                                                         *)
(* Optional values (undefined / null in the source) are sequences of       *)
(* length 0 or 1: None is absent, Some(v) is present.  Strings are TLA+    *)
(* strings; the empty string is the falsy string of the source.  A field   *)
(* the source leaves off an object is left out of the record's DOMAIN.     *)
(***************************************************************************)
EXTENDS Integers, Sequences, FiniteSets, TLC

VARIABLES
    params,          \* per call: the GenerateVideoParams handed to generateVideo
    pc,              \* per call: the suspend point the call is at
    i,               \* per call: the story loop's index (0-based, as in the source)
    currentResult,   \* per call: the story loop's currentResult (None is null)
    operation,       \* per call: the operation handle performGeneration holds
    pending,         \* per call: locals of the running cycle (videoObject, url)
    trace,           \* per call: the remote calls, their answers and the waits, in order
    produced,        \* per call: the results performGeneration has returned, in order
    outcome,         \* per call: what generateVideo settled with (None while running)
    bParams,         \* the builder alone: the request given to it
    bOverridePrompt, \* the builder alone: the overridePrompt argument
    bOverrideVideo,  \* the builder alone: the overrideVideoInput argument
    bBuilt,          \* the builder alone: what it produced (None before)
    builds,          \* the builder called again and again: its inputs and outputs
    form,            \* the form: the state of PromptForm (its useState values)
    generated        \* the form: the request the last event handed to onGenerate

orchVars == <<params, pc, i, currentResult, operation, pending, trace, produced, outcome>>
buildVars == <<bParams, bOverridePrompt, bOverrideVideo, bBuilt, builds>>
formVars == <<form, generated>>
vars == <<params, pc, i, currentResult, operation, pending, trace, produced, outcome,
          bParams, bOverridePrompt, bOverrideVideo, bBuilt, builds, form, generated>>

----------------------------------------------------------------------------
(* Optional values *)

None == << >>
Some(v) == << v >>
IsSome(o) == o # << >>
Get(o) == o[1]

(* The empty record: an object with no optional field set. *)
NoFields == [x \in {} |-> TRUE]

(* f with field k set to v when cond holds, f unchanged otherwise. *)
SetIf(cond, f, k, v) == IF cond THEN (k :> v) @@ f ELSE f

----------------------------------------------------------------------------
(* Bounds of the model *)

MaxRefs == 2
MaxStory == 3
MaxNotDone == 4
MaxBuilds == 3
MaxNotDoneTwo == 1

----------------------------------------------------------------------------
(* GenerationMode, as used by the service *)

TEXT_TO_VIDEO == "TEXT_TO_VIDEO"
FRAMES_TO_VIDEO == "FRAMES_TO_VIDEO"
REFERENCES_TO_VIDEO == "REFERENCES_TO_VIDEO"
EXTEND_VIDEO == "EXTEND_VIDEO"
STORY_MODE == "STORY_MODE"

GenerationMode ==
    {TEXT_TO_VIDEO, FRAMES_TO_VIDEO, REFERENCES_TO_VIDEO, EXTEND_VIDEO, STORY_MODE}

(* The errors thrown by the service, by the names the specification gives them. *)
MissingExtensionSource == "An input video object is required to extend a video."
NoAssetsProduced == "No videos were generated."
MissingAssetLocator == "Generated video is missing a URI."
GenerationFailed == "No videos generated."
AssetFetchFailed == "Failed to fetch video: "
ChainBroken == "Previous step failed to produce a result."
StoryProducedNothing == "Story Mode failed to generate any video."

(* Errors that reach the service from outside and pass through it unchanged. *)
SubmissionRejected == "generateVideos rejected"
PollRejected == "getVideosOperation rejected"
FetchRejected == "fetch rejected"
BlobRejected == "res.blob rejected"
URIMalformed == "URIError: URI malformed"

----------------------------------------------------------------------------
(* The Job Submission Builder: lines 29-131 of performGeneration *)

(* All sequences over S of length at most n. *)
SeqUpTo(S, n) == UNION {[1..k -> S] : k \in 0..n}

RECURSIVE join(_, _)
(* Array.prototype.join: the elements separated by sep. *)
join(strs, sep) ==
    IF Len(strs) = 0 THEN ""
    ELSE IF Len(strs) = 1 THEN strs[1]
    ELSE strs[1] \o sep \o join(Tail(strs), sep)

(* The extension test looking at the mode only. *)
isExtensionByModeOnly(p, overrideVideoInput) == p.mode = EXTEND_VIDEO

(* Line 38. *)
isExtensionOperation(p, overrideVideoInput) ==
    p.mode = EXTEND_VIDEO \/ IsSome(overrideVideoInput)

(* Lines 29-46: numberOfVideos, resolution, and aspectRatio unless extending. *)
config(p, overrideVideoInput) ==
    SetIf(~isExtensionOperation(p, overrideVideoInput),
          [numberOfVideos |-> 1, resolution |-> p.resolution],
          "aspectRatio", p.aspectRatio)

(* The labels numbered after the unlabelled images were dropped. *)
refDescriptionsRenumbered(referenceImages) ==
    LET kept == SelectSeq(referenceImages, LAMBDA img : img.description # "")
    IN join([idx \in 1..Len(kept) |->
               "(Reference " \o ToString(idx) \o ": " \o kept[idx].description \o ")"],
            " ")

(* Lines 58-61: map each image to its label text or null, drop the nulls, join. *)
refDescriptions(referenceImages) ==
    LET mapped == [idx \in 1..Len(referenceImages) |->
                     IF referenceImages[idx].description # ""
                     THEN Some("(Reference " \o ToString(idx) \o ": "
                               \o referenceImages[idx].description \o ")")
                     ELSE None]
        kept == SelectSeq(mapped, IsSome)
    IN join([k \in 1..Len(kept) |-> Get(kept[k])], " ")

(* Line 53: overridePrompt || params.prompt. *)
basePrompt(p, overridePrompt) ==
    IF IsSome(overridePrompt) /\ Get(overridePrompt) # ""
    THEN Get(overridePrompt) ELSE p.prompt

(* Lines 53-66: the prompt, with the reference labels appended when not extending. *)
activePrompt(p, overridePrompt, overrideVideoInput) ==
    LET base == basePrompt(p, overridePrompt)
        hasRefs == IsSome(p.referenceImages) /\ Len(Get(p.referenceImages)) > 0
        descs == IF hasRefs THEN refDescriptions(Get(p.referenceImages)) ELSE ""
    IN IF ~isExtensionOperation(p, overrideVideoInput) /\ hasRefs /\ descs # ""
       THEN IF base # "" THEN base \o " " \o descs ELSE descs
       ELSE base

imagePart(img) == [imageBytes |-> img.base64, mimeType |-> img.type]

(* The reference list with the style image put first. *)
referenceImagesPayloadStyleFirst(p) ==
    LET refs == IF IsSome(p.referenceImages) THEN Get(p.referenceImages) ELSE << >>
        assets == [k \in 1..Len(refs) |->
                     [image |-> imagePart(refs[k]), referenceType |-> "ASSET"]]
    IN IF IsSome(p.styleImage)
       THEN <<[image |-> imagePart(Get(p.styleImage)), referenceType |-> "STYLE"]>>
               \o assets
       ELSE assets

(* Lines 99-119: every reference image as ASSET, then the style image as STYLE. *)
referenceImagesPayload(p) ==
    LET refs == IF IsSome(p.referenceImages) THEN Get(p.referenceImages) ELSE << >>
        assets == [k \in 1..Len(refs) |->
                     [image |-> imagePart(refs[k]), referenceType |-> "ASSET"]]
    IN IF IsSome(p.styleImage)
       THEN Append(assets, [image |-> imagePart(Get(p.styleImage)),
                            referenceType |-> "STYLE"])
       ELSE assets

(* The end frame with the explicit one preferred: the start frame closes the
   loop only when no end frame is given. *)
finalEndFramePreferExplicit(p) ==
    IF p.isLooping /\ ~IsSome(p.endFrame) THEN p.startFrame ELSE p.endFrame

(* Lines 86-88. *)
finalEndFrame(p) == IF p.isLooping THEN p.startFrame ELSE p.endFrame

(* Line 95: the condition of the references branch. *)
referencesBranch(p) ==
    \/ p.mode = REFERENCES_TO_VIDEO
    \/ /\ p.mode = STORY_MODE
       /\ IsSome(p.referenceImages)
       /\ Len(Get(p.referenceImages)) > 0

(* The input chain taking the request's inputVideoObject whenever it is set. *)
inputBranchAnyInputVideo(p, overrideVideoInput) ==
    IF IsSome(overrideVideoInput) THEN "override"
    ELSE IF IsSome(p.inputVideoObject) \/ p.mode = EXTEND_VIDEO THEN "extend"
    ELSE IF p.mode = FRAMES_TO_VIDEO THEN "frames"
    ELSE IF referencesBranch(p) THEN "references"
    ELSE "none"

(* The input chain looking at the frames mode before the override video. *)
inputBranchFramesFirst(p, overrideVideoInput) ==
    IF p.mode = FRAMES_TO_VIDEO THEN "frames"
    ELSE IF IsSome(overrideVideoInput) THEN "override"
    ELSE IF referencesBranch(p) THEN "references"
    ELSE IF p.mode = EXTEND_VIDEO THEN "extend"
    ELSE "none"

(* Lines 72-131: which input the payload carries. *)
inputBranch(p, overrideVideoInput) ==
    IF IsSome(overrideVideoInput) THEN "override"
    ELSE IF p.mode = FRAMES_TO_VIDEO THEN "frames"
    ELSE IF referencesBranch(p) THEN "references"
    ELSE IF p.mode = EXTEND_VIDEO THEN "extend"
    ELSE "none"

(* Lines 29-127: the fields of the payload. *)
payloadFields(p, overridePrompt, overrideVideoInput) ==
    LET branch == inputBranch(p, overrideVideoInput)
        isExt == isExtensionOperation(p, overrideVideoInput)
        prompt == activePrompt(p, overridePrompt, overrideVideoInput)
        cfg0 == config(p, overrideVideoInput)
        cfg1 == SetIf(branch = "frames" /\ IsSome(finalEndFrame(p)), cfg0,
                      "lastFrame",
                      IF IsSome(finalEndFrame(p))
                      THEN imagePart(Get(finalEndFrame(p))) ELSE NoFields)
        cfg2 == SetIf(branch = "references" /\ ~isExt
                        /\ Len(referenceImagesPayload(p)) > 0,
                      cfg1, "referenceImages", referenceImagesPayload(p))
        p0 == [model |-> p.model, config |-> cfg2]
        p1 == SetIf(prompt # "", p0, "prompt", prompt)
        p2 == SetIf(branch = "override", p1, "video",
                    IF IsSome(overrideVideoInput) THEN Get(overrideVideoInput)
                    ELSE NoFields)
        p3 == SetIf(branch = "frames" /\ IsSome(p.startFrame), p2, "image",
                    IF IsSome(p.startFrame) THEN imagePart(Get(p.startFrame))
                    ELSE NoFields)
        p4 == SetIf(branch = "extend" /\ IsSome(p.inputVideoObject), p3, "video",
                    IF IsSome(p.inputVideoObject) THEN Get(p.inputVideoObject)
                    ELSE NoFields)
    IN p4

(* The builder without the check of line 128: an extension without a source is
   built like any other payload. *)
generateVideoPayloadUnchecked(p, overridePrompt, overrideVideoInput) ==
    [threw |-> FALSE, payload |-> payloadFields(p, overridePrompt, overrideVideoInput)]

(* Lines 29-131: the payload handed to generateVideos, or the error thrown when
   an extension has no video to extend. *)
generateVideoPayload(p, overridePrompt, overrideVideoInput) ==
    IF inputBranch(p, overrideVideoInput) = "extend" /\ ~IsSome(p.inputVideoObject)
    THEN [threw |-> TRUE, error |-> MissingExtensionSource]
    ELSE [threw |-> FALSE,
          payload |-> payloadFields(p, overridePrompt, overrideVideoInput)]

----------------------------------------------------------------------------
(* The inputs of the builder *)

imgHero == [base64 |-> "img1", type |-> "image/png", description |-> "Hero"]
imgPlain == [base64 |-> "img2", type |-> "image/jpeg", description |-> ""]
imgStyle == [base64 |-> "img3", type |-> "image/png", description |-> "Noir"]

uriA == <<"a">>
uriB == <<"b", "%", "2", "6", "c">>
uriMalformed == <<"%", "z">>

vidA == [uri |-> Some(uriA)]
vidB == [uri |-> Some(uriB)]
vidInput == [uri |-> Some(<<"i">>)]

RefImages == {imgHero, imgPlain}
RefLists == {None} \cup {Some(l) : l \in SeqUpTo(RefImages, MaxRefs)}

BuildRequests ==
    [prompt : {"", "A chase"},
     storyPrompts : {None},
     model : {"veo-3.1-generate-preview"},
     aspectRatio : {"16:9", "9:16"},
     resolution : {"720p"},
     mode : GenerationMode,
     startFrame : {None, Some(imgHero)},
     endFrame : {None, Some(imgPlain)},
     referenceImages : RefLists,
     styleImage : {None, Some(imgStyle)},
     inputVideoObject : {None, Some(vidInput)},
     isLooping : BOOLEAN]

OverridePrompts == {None, Some(""), Some("continue")}
OverrideVideos == {None, Some(vidA)}

----------------------------------------------------------------------------
(* The builder applied to one input *)

BuildInit ==
    /\ bParams \in BuildRequests
    /\ bOverridePrompt \in OverridePrompts
    /\ bOverrideVideo \in OverrideVideos
    /\ bBuilt = None
    /\ builds = << >>

(* One call of the builder on the chosen input. *)
Build ==
    /\ bBuilt = None
    /\ bBuilt' = Some(generateVideoPayload(bParams, bOverridePrompt, bOverrideVideo))
    /\ UNCHANGED <<bParams, bOverridePrompt, bOverrideVideo, builds>>
    /\ UNCHANGED orchVars
    /\ UNCHANGED formVars

----------------------------------------------------------------------------
(* The remote service and the network, as the service sees them *)

API_KEY == "API_KEY"

HexDigits == {"0", "1", "2", "3", "4", "5", "6", "7", "8", "9",
              "A", "B", "C", "D", "E", "F"}

(* The character a two-digit escape stands for (the escapes the model uses). *)
unescaped(h1, h2) ==
    IF h1 = "2" /\ h2 = "6" THEN "&"
    ELSE IF h1 = "3" /\ h2 = "D" THEN "="
    ELSE IF h1 = "2" /\ h2 = "F" THEN "/"
    ELSE "?"

RECURSIVE wellFormedURI(_)
(* Whether decodeURIComponent accepts the text: every % starts a two-digit escape. *)
wellFormedURI(chars) ==
    IF Len(chars) = 0 THEN TRUE
    ELSE IF chars[1] = "%"
         THEN /\ Len(chars) >= 3
              /\ chars[2] \in HexDigits
              /\ chars[3] \in HexDigits
              /\ wellFormedURI(SubSeq(chars, 4, Len(chars)))
         ELSE wellFormedURI(Tail(chars))

RECURSIVE decodeURIComponent(_)
(* decodeURIComponent on a well-formed text: each escape replaced by its character. *)
decodeURIComponent(chars) ==
    IF Len(chars) = 0 THEN << >>
    ELSE IF chars[1] = "%"
         THEN <<unescaped(chars[2], chars[3])>>
                 \o decodeURIComponent(SubSeq(chars, 4, Len(chars)))
         ELSE <<chars[1]>> \o decodeURIComponent(Tail(chars))

(* Line 157: the address fetched, `${url}&key=${process.env.API_KEY}`. *)
fetchAddress(url) == url \o <<"&key=", API_KEY>>

(* What a done operation can carry: no response block, a block without a video
   list, an empty list, a first entry without video or without a location, a
   location that does not decode, or usable videos. *)
noVideo == [video |-> None]
noUri == [video |-> Some([uri |-> None])]
emptyUri == [video |-> Some([uri |-> Some(<< >>)])]
badUri == [video |-> Some([uri |-> Some(uriMalformed)])]
genA == [video |-> Some(vidA)]
genB == [video |-> Some(vidB)]

Responses ==
    {None,
     Some([generatedVideos |-> None]),
     Some([generatedVideos |-> Some(<< >>)]),
     Some([generatedVideos |-> Some(<<noVideo>>)]),
     Some([generatedVideos |-> Some(<<noUri, genA>>)]),
     Some([generatedVideos |-> Some(<<emptyUri>>)]),
     Some([generatedVideos |-> Some(<<badUri>>)]),
     Some([generatedVideos |-> Some(<<genA>>)]),
     Some([generatedVideos |-> Some(<<genB, genA>>)])}

(* The handles generateVideos and getVideosOperation can answer with. *)
Operations(name) ==
    {[name |-> name, done |-> FALSE, response |-> None]}
      \cup {[name |-> name, done |-> TRUE, response |-> r] : r \in Responses}

FetchResponses ==
    {[ok |-> TRUE, status |-> 200, statusText |-> "OK"],
     [ok |-> FALSE, status |-> 403, statusText |-> "Forbidden"],
     [ok |-> FALSE, status |-> 500, statusText |-> "Internal Server Error"]}

(* The body of an ok response: the bytes the network serves at the address. *)
bodyAt(address) == [bytesOf |-> address]

(* URL.createObjectURL: a local address for the blob. *)
createObjectURL(blob) == [objectUrlOf |-> blob]

(* Line 138: the delay between a not-done answer and the next query. *)
PollIntervalMs == 10000

----------------------------------------------------------------------------
(* The trace of remote calls *)

SubmitEvent(payload) == [type |-> "submit", payload |-> payload]
WaitEvent(ms) == [type |-> "wait", ms |-> ms]
PollEvent(name) == [type |-> "poll", job |-> name]
FetchEvent(address) == [type |-> "fetch", address |-> address]
(* What a call settled with: to is "submit", "poll", "fetch" or "blob". *)
AnswerEvent(to, value) == [type |-> "answer", to |-> to, rejected |-> FALSE, value |-> value]
RejectEvent(to) == [type |-> "answer", to |-> to, rejected |-> TRUE]

OfType(tr, t) == SelectSeq(tr, LAMBDA e : e.type = t)
Count(tr, t) == Len(OfType(tr, t))

----------------------------------------------------------------------------
(* performGeneration: one Remote Job Cycle *)

Rejected(err) == Some([status |-> "rejected", error |-> err])
Resolved(result) == Some([status |-> "resolved", result |-> result])

(* A throw inside the cycle: nothing more is called. *)
Throw(tr, err) == [pc |-> "failed", trace |-> tr, error |-> Some(err), pending |-> None]

(* Lines 29-134: build the payload and hand it to generateVideos, or throw. *)
startCycle(tr, p, overridePrompt, overrideVideoInput) ==
    LET built == generateVideoPayload(p, overridePrompt, overrideVideoInput)
    IN IF built.threw
       THEN Throw(tr, built.error)
       ELSE [pc |-> "submit", trace |-> Append(tr, SubmitEvent(built.payload)),
             error |-> None, pending |-> None]

(* Line 150: firstVideo?.video?.uri is truthy. *)
hasUri(firstVideo) ==
    /\ IsSome(firstVideo.video)
    /\ IsSome(Get(firstVideo.video).uri)
    /\ Get(Get(firstVideo.video).uri) # << >>

(* The response checks without the test of line 145: an empty list has no first
   video, so the test of line 150 throws instead. *)
afterDoneNoListCheck(tr, op) ==
    IF ~IsSome(op.response) THEN Throw(tr, GenerationFailed)
    ELSE LET videos == Get(op.response).generatedVideos
         IN IF ~IsSome(videos) \/ Len(Get(videos)) = 0 \/ ~hasUri(Get(videos)[1])
            THEN Throw(tr, MissingAssetLocator)
            ELSE LET videoObject == Get(Get(videos)[1].video)
                     uri == Get(videoObject.uri)
                 IN IF ~wellFormedURI(uri)
                    THEN Throw(tr, URIMalformed)
                    ELSE [pc |-> "fetch",
                          trace |-> Append(tr, FetchEvent(fetchAddress(
                                                  decodeURIComponent(uri)))),
                          error |-> None,
                          pending |-> Some([videoObject |-> videoObject,
                                            url |-> decodeURIComponent(uri)])]

(* The fetch of the asset at the location of descriptor `chosen`. *)
fetchOf(tr, chosen) ==
    LET videoObject == Get(chosen.video)
        uri == Get(videoObject.uri)
    IN IF ~wellFormedURI(uri)
       THEN Throw(tr, URIMalformed)
       ELSE LET url == decodeURIComponent(uri)
            IN [pc |-> "fetch",
                trace |-> Append(tr, FetchEvent(fetchAddress(url))),
                error |-> None,
                pending |-> Some([videoObject |-> videoObject, url |-> url])]

(* The response checks with the test of the list first: a handle without a
   response has no list either. *)
afterDoneListFirst(tr, op) ==
    IF ~IsSome(op.response)
       \/ ~IsSome(Get(op.response).generatedVideos)
       \/ Len(Get(Get(op.response).generatedVideos)) = 0
    THEN Throw(tr, NoAssetsProduced)
    ELSE LET firstVideo == Get(Get(op.response).generatedVideos)[1]
         IN IF ~hasUri(firstVideo)
            THEN Throw(tr, MissingAssetLocator)
            ELSE fetchOf(tr, firstVideo)

(* The response checks looking for the first descriptor that has a uri, instead
   of looking at the first descriptor only. *)
afterDoneFirstLocated(tr, op) ==
    IF ~IsSome(op.response) THEN Throw(tr, GenerationFailed)
    ELSE LET videos == Get(op.response).generatedVideos
         IN IF ~IsSome(videos) \/ Len(Get(videos)) = 0
            THEN Throw(tr, NoAssetsProduced)
            ELSE LET located == SelectSeq(Get(videos), hasUri)
                 IN IF Len(located) = 0
                    THEN Throw(tr, MissingAssetLocator)
                    ELSE fetchOf(tr, located[1])

(* The response checks taking the last descriptor of the list, not the first. *)
afterDoneLastDescriptor(tr, op) ==
    IF ~IsSome(op.response) THEN Throw(tr, GenerationFailed)
    ELSE LET videos == Get(op.response).generatedVideos
         IN IF ~IsSome(videos) \/ Len(Get(videos)) = 0
            THEN Throw(tr, NoAssetsProduced)
            ELSE LET lastVideo == Get(videos)[Len(Get(videos))]
                 IN IF ~hasUri(lastVideo)
                    THEN Throw(tr, MissingAssetLocator)
                    ELSE fetchOf(tr, lastVideo)

(* Lines 143-157 and 166-168: the checks on a done operation, up to the fetch. *)
afterDone(tr, op) ==
    IF ~IsSome(op.response) THEN Throw(tr, GenerationFailed)
    ELSE LET videos == Get(op.response).generatedVideos
         IN IF ~IsSome(videos) \/ Len(Get(videos)) = 0
            THEN Throw(tr, NoAssetsProduced)
            ELSE LET firstVideo == Get(videos)[1]
                 IN IF ~hasUri(firstVideo)
                    THEN Throw(tr, MissingAssetLocator)
                    ELSE LET videoObject == Get(firstVideo.video)
                             uri == Get(videoObject.uri)
                         IN IF ~wellFormedURI(uri)
                            THEN Throw(tr, URIMalformed)
                            ELSE LET url == decodeURIComponent(uri)
                                 IN [pc |-> "fetch",
                                     trace |-> Append(tr, FetchEvent(fetchAddress(url))),
                                     error |-> None,
                                     pending |-> Some([videoObject |-> videoObject,
                                                       url |-> url])]

(* The fetch without the check of line 158: the body is read whatever the status. *)
afterFetchUnchecked(tr, res, locals) ==
    [pc |-> "blob", trace |-> tr, error |-> None, pending |-> locals]

(* The fetch going back to the polling loop when the response is not ok. *)
afterFetchRepoll(tr, res, locals) ==
    IF ~res.ok /\ Count(tr, "wait") < MaxNotDone
    THEN [pc |-> "timer", trace |-> tr, error |-> None, pending |-> None]
    ELSE IF ~res.ok
    THEN Throw(tr, AssetFetchFailed \o ToString(res.status) \o " " \o res.statusText)
    ELSE [pc |-> "blob", trace |-> tr, error |-> None, pending |-> locals]

(* The fetch made once more when the first response is not ok. *)
afterFetchRetryOnce(tr, res, locals) ==
    IF ~res.ok /\ Count(tr, "fetch") < Count(tr, "submit") + 1
    THEN [pc |-> "fetch",
          trace |-> Append(tr, FetchEvent(fetchAddress(Get(locals).url))),
          error |-> None, pending |-> locals]
    ELSE IF ~res.ok
    THEN Throw(tr, AssetFetchFailed \o ToString(res.status) \o " " \o res.statusText)
    ELSE [pc |-> "blob", trace |-> tr, error |-> None, pending |-> locals]

(* Lines 158-162: a response that is not ok is an error; else its body is read. *)
afterFetch(tr, res, locals) ==
    IF ~res.ok
    THEN Throw(tr, AssetFetchFailed \o ToString(res.status) \o " " \o res.statusText)
    ELSE [pc |-> "blob", trace |-> tr, error |-> None, pending |-> locals]

(* The loop going on until the handle carries a response, not until it is done. *)
afterOperationUntilResponse(tr, op) ==
    IF ~op.done \/ (~IsSome(op.response) /\ Count(tr, "wait") < MaxNotDone)
    THEN [pc |-> "timer", trace |-> tr, error |-> None, pending |-> None]
    ELSE afterDone(tr, op)

(* The loop giving up on a handle still not done after two waits. *)
afterOperationCapped(tr, op) ==
    IF ~op.done /\ Count(tr, "wait") >= 2
    THEN Throw(tr, "Timed out waiting for the video.")
    ELSE IF ~op.done
    THEN [pc |-> "timer", trace |-> tr, error |-> None, pending |-> None]
    ELSE afterDone(tr, op)

(* The loop written as do-while: the handle generateVideos answered with is
   queried once after a wait even when it already reports done. *)
afterOperationDoWhile(tr, op) ==
    IF ~op.done \/ tr[Len(tr)].to = "submit"
    THEN [pc |-> "timer", trace |-> tr, error |-> None, pending |-> None]
    ELSE afterDone(tr, op)

(* Line 137: the loop test on the handle just received. *)
afterOperation(tr, op) ==
    IF ~op.done
    THEN [pc |-> "timer", trace |-> tr, error |-> None, pending |-> None]
    ELSE afterDone(tr, op)

(* The call's locals after a piece of the cycle ran to its next suspend point. *)
Advance(c, r) ==
    /\ pc' = [pc EXCEPT ![c] = r.pc]
    /\ trace' = [trace EXCEPT ![c] = r.trace]
    /\ pending' = [pending EXCEPT ![c] = r.pending]
    /\ outcome' = [outcome EXCEPT ![c] = IF IsSome(r.error)
                                         THEN Rejected(Get(r.error)) ELSE @]

----------------------------------------------------------------------------
(* generateVideo *)

(* The story test looking at the prompts only, whatever the mode. *)
isStoryAnyMode(p) ==
    /\ IsSome(p.storyPrompts)
    /\ Len(Get(p.storyPrompts)) > 0

(* Line 179: the story path is taken. *)
isStory(p) ==
    /\ p.mode = STORY_MODE
    /\ IsSome(p.storyPrompts)
    /\ Len(Get(p.storyPrompts)) > 0

(* The story iteration extending the request's own inputVideoObject, when it has
   one, instead of the previous step's video. *)
storyIterationFromInput(tr, p, idx, result) ==
    LET currentPrompt == Get(p.storyPrompts)[idx + 1]
    IN IF idx = 0
       THEN startCycle(tr, [p EXCEPT !.mode = STORY_MODE, !.prompt = currentPrompt],
                       None, None)
       ELSE IF ~IsSome(result)
            THEN Throw(tr, ChainBroken)
            ELSE startCycle(tr, p, Some(currentPrompt),
                            IF IsSome(p.inputVideoObject) THEN p.inputVideoObject
                            ELSE Some(Get(result).video))

(* The story iteration without the guard of line 199: a later step is handed to
   performGeneration whether or not there is a previous result. *)
storyIterationUnguarded(tr, p, idx, result) ==
    LET currentPrompt == Get(p.storyPrompts)[idx + 1]
    IN IF idx = 0
       THEN startCycle(tr, [p EXCEPT !.mode = STORY_MODE, !.prompt = currentPrompt],
                       None, None)
       ELSE startCycle(tr, p, Some(currentPrompt),
                       IF IsSome(result) THEN Some(Get(result).video) ELSE None)

(* Lines 189-208: the performGeneration call of story iteration idx (0-based). *)
storyIteration(tr, p, idx, result) ==
    LET currentPrompt == Get(p.storyPrompts)[idx + 1]
    IN IF idx = 0
       THEN startCycle(tr, [p EXCEPT !.mode = STORY_MODE, !.prompt = currentPrompt],
                       None, None)
       ELSE IF ~IsSome(result)
            THEN Throw(tr, ChainBroken)
            ELSE startCycle(tr, p, Some(currentPrompt), Some(Get(result).video))

(* generateVideo not awaiting the first story step: the second step is submitted
   in the same turn, before the first job was polled. *)
GenerateWithoutAwait(c) ==
    /\ pc[c] = "start"
    /\ IF isStory(params[c])
       THEN LET first == storyIteration(trace[c], params[c], 0, None)
            IN IF Len(Get(params[c].storyPrompts)) > 1 /\ first.pc = "submit"
               THEN Advance(c, startCycle(first.trace, params[c],
                                          Some(Get(params[c].storyPrompts)[2]), None))
               ELSE Advance(c, first)
       ELSE Advance(c, startCycle(trace[c], params[c], None, None))
    /\ i' = [i EXCEPT ![c] = 0]
    /\ currentResult' = [currentResult EXCEPT ![c] = None]
    /\ UNCHANGED <<params, operation, produced>>
    /\ UNCHANGED buildVars
    /\ UNCHANGED formVars

(* The calls of the runs with two calls in flight. *)
TwoCalls == {"first", "second"}

(* How many times the remote service reports the jobs of call c not done. *)
NotDoneBudget(c) == IF c \in TwoCalls THEN MaxNotDoneTwo ELSE MaxNotDone

(* generateVideo writing the story mode and the first story prompt into the
   caller's request instead of into a copy. *)
GenerateInPlace(c) ==
    /\ pc[c] = "start"
    /\ IF isStory(params[c])
       THEN /\ Advance(c, storyIteration(trace[c], params[c], 0, None))
            /\ params' = [params EXCEPT ![c].mode = STORY_MODE,
                                        ![c].prompt = Get(params[c].storyPrompts)[1]]
       ELSE /\ Advance(c, startCycle(trace[c], params[c], None, None))
            /\ UNCHANGED params
    /\ i' = [i EXCEPT ![c] = 0]
    /\ currentResult' = [currentResult EXCEPT ![c] = None]
    /\ UNCHANGED <<operation, produced>>
    /\ UNCHANGED buildVars
    /\ UNCHANGED formVars

(* Lines 172-196, 213-215 and 222: generateVideo runs up to its first remote
   call; a story loop over no prompt at all ends at the guard of line 213. *)
Generate(c) ==
    /\ pc[c] = "start"
    /\ IF isStory(params[c])
       THEN IF Len(Get(params[c].storyPrompts)) = 0
            THEN Advance(c, Throw(trace[c], StoryProducedNothing))
            ELSE Advance(c, storyIteration(trace[c], params[c], 0, None))
       ELSE Advance(c, startCycle(trace[c], params[c], None, None))
    /\ i' = [i EXCEPT ![c] = 0]
    /\ currentResult' = [currentResult EXCEPT ![c] = None]
    /\ UNCHANGED <<params, operation, produced>>
    /\ UNCHANGED buildVars
    /\ UNCHANGED formVars

(* generateVideos rejecting being answered by one more submission of the same
   payload. *)
SubmitSettlesRetries(c) ==
    /\ pc[c] = "submit"
    /\ \/ /\ IF Len(SelectSeq(trace[c], LAMBDA e : e.type = "answer" /\ e.rejected)) = 0
             THEN Advance(c, [pc |-> "submit",
                              trace |-> trace[c] \o <<RejectEvent("submit"),
                                                      OfType(trace[c], "submit")[
                                                         Count(trace[c], "submit")]>>,
                              error |-> None, pending |-> None])
             ELSE Advance(c, Throw(Append(trace[c], RejectEvent("submit")),
                                   SubmissionRejected))
          /\ UNCHANGED operation
       \/ \E op \in Operations(Count(trace[c], "submit")) :
             /\ ~op.done => Count(trace[c], "wait") < NotDoneBudget(c)
             /\ operation' = [operation EXCEPT ![c] = Some(op)]
             /\ Advance(c, afterOperation(Append(trace[c], AnswerEvent("submit", op)),
                                          op))
    /\ UNCHANGED <<params, i, currentResult, produced>>
    /\ UNCHANGED buildVars
    /\ UNCHANGED formVars

(* Line 134: generateVideos settles, with a handle or with an error. *)
SubmitSettles(c) ==
    /\ pc[c] = "submit"
    /\ \/ /\ Advance(c, Throw(Append(trace[c], RejectEvent("submit")),
                               SubmissionRejected))
          /\ UNCHANGED operation
       \/ \E op \in Operations(Count(trace[c], "submit")) :
             /\ ~op.done => Count(trace[c], "wait") < NotDoneBudget(c)
             /\ operation' = [operation EXCEPT ![c] = Some(op)]
             /\ Advance(c, afterOperation(Append(trace[c], AnswerEvent("submit", op)),
                                          op))
    /\ UNCHANGED <<params, i, currentResult, produced>>
    /\ UNCHANGED buildVars
    /\ UNCHANGED formVars

(* Lines 138-140: the timer fires and the handle is queried. *)
TimerFires(c) ==
    /\ pc[c] = "timer"
    /\ pc' = [pc EXCEPT ![c] = "poll"]
    /\ trace' = [trace EXCEPT ![c] =
                   @ \o <<WaitEvent(PollIntervalMs), PollEvent(Get(operation[c]).name)>>]
    /\ UNCHANGED <<params, i, currentResult, operation, pending, produced, outcome>>
    /\ UNCHANGED buildVars
    /\ UNCHANGED formVars

(* Line 140: getVideosOperation settles, with the refreshed handle or an error. *)
PollSettles(c) ==
    /\ pc[c] = "poll"
    /\ \/ /\ Advance(c, Throw(Append(trace[c], RejectEvent("poll")), PollRejected))
          /\ UNCHANGED operation
       \/ \E op \in Operations(Get(operation[c]).name) :
             /\ ~op.done => Count(trace[c], "wait") < NotDoneBudget(c)
             /\ operation' = [operation EXCEPT ![c] = Some(op)]
             /\ Advance(c, afterOperation(Append(trace[c], AnswerEvent("poll", op)),
                                          op))
    /\ UNCHANGED <<params, i, currentResult, produced>>
    /\ UNCHANGED buildVars
    /\ UNCHANGED formVars

(* Lines 157-160: fetch settles; a response that is not ok is an error. *)
FetchSettles(c) ==
    /\ pc[c] = "fetch"
    /\ \/ Advance(c, Throw(Append(trace[c], RejectEvent("fetch")), FetchRejected))
       \/ \E res \in FetchResponses :
             Advance(c, afterFetch(Append(trace[c], AnswerEvent("fetch", res)),
                                   res, pending[c]))
    /\ UNCHANGED <<params, i, currentResult, operation, produced>>
    /\ UNCHANGED buildVars
    /\ UNCHANGED formVars

(* Lines 162-165: the body is read and performGeneration returns its result. *)
BlobSettles(c) ==
    /\ pc[c] = "blob"
    /\ \/ /\ Advance(c, Throw(Append(trace[c], RejectEvent("blob")), BlobRejected))
          /\ UNCHANGED produced
       \/ LET videoBlob == bodyAt(fetchAddress(Get(pending[c]).url))
          IN /\ produced' = [produced EXCEPT ![c] =
                   Append(@, [objectUrl |-> createObjectURL(videoBlob),
                              blob |-> videoBlob,
                              uri |-> Get(pending[c]).url,
                              video |-> Get(pending[c]).videoObject])]
             /\ Advance(c, [pc |-> "returned",
                            trace |-> Append(trace[c], AnswerEvent("blob", videoBlob)),
                            error |-> None, pending |-> None])
    /\ UNCHANGED <<params, i, currentResult, operation>>
    /\ UNCHANGED buildVars
    /\ UNCHANGED formVars

(* What generateVideo does with the result performGeneration returned. *)
lastProduced(c) == produced[c][Len(produced[c])]

(* Line 222: the single step's result is the call's result. *)
ReturnSingle(c) ==
    /\ pc[c] = "returned"
    /\ ~isStory(params[c])
    /\ pc' = [pc EXCEPT ![c] = "done"]
    /\ outcome' = [outcome EXCEPT ![c] = Resolved(lastProduced(c))]
    /\ UNCHANGED <<params, i, currentResult, operation, pending, trace, produced>>
    /\ UNCHANGED buildVars
    /\ UNCHANGED formVars

(* The story loop returning from inside the loop: the first step's result is the
   call's result. *)
StoryContinueReturnsEarly(c) ==
    /\ pc[c] = "returned"
    /\ isStory(params[c])
    /\ currentResult' = [currentResult EXCEPT ![c] = Some(lastProduced(c))]
    /\ i' = [i EXCEPT ![c] = @ + 1]
    /\ pc' = [pc EXCEPT ![c] = "done"]
    /\ outcome' = [outcome EXCEPT ![c] = Resolved(lastProduced(c))]
    /\ UNCHANGED <<params, operation, produced, pending, trace>>
    /\ UNCHANGED buildVars
    /\ UNCHANGED formVars

(* The story loop with its index kept in one variable for all calls: a step
   finished by one call moves every call's index on. *)
StoryContinueSharedIndex(c) ==
    /\ pc[c] = "returned"
    /\ isStory(params[c])
    /\ LET result == Some(lastProduced(c))
           next == i[c] + 1
       IN /\ currentResult' = [currentResult EXCEPT ![c] = result]
          /\ i' = [d \in DOMAIN i |-> next]
          /\ IF next < Len(Get(params[c].storyPrompts))
             THEN Advance(c, storyIteration(trace[c], params[c], next, result))
             ELSE /\ pc' = [pc EXCEPT ![c] = "done"]
                  /\ outcome' = [outcome EXCEPT ![c] = Resolved(Get(result))]
                  /\ UNCHANGED <<pending, trace>>
    /\ UNCHANGED <<params, operation, produced>>
    /\ UNCHANGED buildVars
    /\ UNCHANGED formVars

(* The story loop awaiting each step without keeping what it returned:
   currentResult stays what it was. *)
StoryContinueDropsResult(c) ==
    /\ pc[c] = "returned"
    /\ isStory(params[c])
    /\ LET result == currentResult[c]
           next == i[c] + 1
       IN /\ currentResult' = [currentResult EXCEPT ![c] = result]
          /\ i' = [i EXCEPT ![c] = next]
          /\ IF next < Len(Get(params[c].storyPrompts))
             THEN Advance(c, storyIteration(trace[c], params[c], next, result))
             ELSE IF ~IsSome(result)
                  THEN Advance(c, Throw(trace[c], StoryProducedNothing))
                  ELSE /\ pc' = [pc EXCEPT ![c] = "done"]
                       /\ outcome' = [outcome EXCEPT ![c] = Resolved(Get(result))]
                       /\ UNCHANGED <<pending, trace>>
    /\ UNCHANGED <<params, operation, produced>>
    /\ UNCHANGED buildVars
    /\ UNCHANGED formVars

(* Lines 185-218: the step's result becomes currentResult, the index moves on,
   and the loop either starts the next step or ends and returns currentResult. *)
StoryContinue(c) ==
    /\ pc[c] = "returned"
    /\ isStory(params[c])
    /\ LET result == Some(lastProduced(c))
           next == i[c] + 1
       IN /\ currentResult' = [currentResult EXCEPT ![c] = result]
          /\ i' = [i EXCEPT ![c] = next]
          /\ IF next < Len(Get(params[c].storyPrompts))
             THEN Advance(c, storyIteration(trace[c], params[c], next, result))
             ELSE IF ~IsSome(result)
                  THEN Advance(c, Throw(trace[c], StoryProducedNothing))
                  ELSE /\ pc' = [pc EXCEPT ![c] = "done"]
                       /\ outcome' = [outcome EXCEPT ![c] = Resolved(Get(result))]
                       /\ UNCHANGED <<pending, trace>>
    /\ UNCHANGED <<params, operation, produced>>
    /\ UNCHANGED buildVars
    /\ UNCHANGED formVars

----------------------------------------------------------------------------
(* The requests given to generateVideo *)

(* A story of n prompts. *)
StoryLine(n) ==
    [k \in 1..n |-> IF k = 1 THEN "open"
                    ELSE IF k = 2 THEN "continue"
                    ELSE "scene " \o ToString(k)]

StoryPromptLists ==
    {None, Some(<< >>), Some(<<"open", "">>)}
      \cup {Some(StoryLine(n)) : n \in 1..MaxStory}

AllRequests ==
    [prompt : {"A chase"},
     storyPrompts : StoryPromptLists,
     model : {"veo-3.1-generate-preview"},
     aspectRatio : {"16:9"},
     resolution : {"720p"},
     mode : GenerationMode,
     startFrame : {None},
     endFrame : {None},
     referenceImages : {Some(<< >>), Some(<<imgHero, imgPlain>>)},
     styleImage : {None},
     inputVideoObject : {None, Some(vidInput)},
     isLooping : {FALSE}]

(* Stories of more than two prompts are run on one request (no reference images,
   an inputVideoObject set); shorter ones and the other modes on all of them. *)
Requests ==
    {r \in AllRequests :
        (r.mode = STORY_MODE /\ Len(r.storyPrompts) = 1 /\ Len(r.storyPrompts[1]) > 2)
           => (r.referenceImages = Some(<< >>) /\ r.inputVideoObject = Some(vidInput))}

Calls == {"call"}

----------------------------------------------------------------------------
(* The builder, called between the steps of generateVideo calls *)

(* The requests of the calls the builder is called beside. *)
RebuildRequests ==
    {r \in Requests :
        /\ r.inputVideoObject = None
        /\ r.referenceImages = Some(<<imgHero, imgPlain>>)
        /\ \/ r.mode \in {TEXT_TO_VIDEO, EXTEND_VIDEO} /\ r.storyPrompts = None
           \/ r.mode = STORY_MODE /\ r.storyPrompts = Some(StoryLine(2))}

(* The builder called again, while generateVideo calls run: the inputs are the
   request of a running call, without overrides (line 222) or with both (lines
   203-208). *)
RebuildInputs(c) ==
    {[request |-> params[c], overridePrompt |-> None, overrideVideoInput |-> None],
     [request |-> params[c], overridePrompt |-> Some("continue"),
      overrideVideoInput |-> Some(vidA)]}

(* The builder keeping its config object from one build to the next: an
   aspectRatio set by an earlier build is still there in a later one. *)
RebuildSharedConfig(c, inp) ==
    /\ Len(builds) < MaxBuilds
    /\ LET built == generateVideoPayload(inp.request, inp.overridePrompt,
                                         inp.overrideVideoInput)
           stale == \E a \in 1..Len(builds) :
                       /\ ~builds[a].built.threw
                       /\ "aspectRatio" \in DOMAIN builds[a].built.payload.config
           shared == IF ~built.threw /\ stale
                     THEN [built EXCEPT !.payload.config =
                              ("aspectRatio" :> inp.request.aspectRatio) @@ @]
                     ELSE built
       IN builds' = Append(builds, [input |-> inp, built |-> shared,
                                    submitted |-> Count(trace[c], "submit")])
    /\ UNCHANGED <<bParams, bOverridePrompt, bOverrideVideo, bBuilt>>
    /\ UNCHANGED orchVars
    /\ UNCHANGED formVars

(* Lines 29-131, run once more: the payload is made from the arguments alone,
   in objects created by this run.  The entry notes how many jobs the call had
   submitted by then. *)
Rebuild(c, inp) ==
    /\ Len(builds) < MaxBuilds
    /\ builds' = Append(builds,
                        [input |-> inp,
                         built |-> generateVideoPayload(inp.request, inp.overridePrompt,
                                                        inp.overrideVideoInput),
                         submitted |-> Count(trace[c], "submit")])
    /\ UNCHANGED <<bParams, bOverridePrompt, bOverrideVideo, bBuilt>>
    /\ UNCHANGED orchVars
    /\ UNCHANGED formVars

----------------------------------------------------------------------------
(* The form (src/components/PromptForm.tsx) *)

(* What the form's text fields hold: a text is the sequence of its characters.
   Text is typed into the first MaxEdit story prompts; the others stay as they
   were added, empty. *)
MaxEdit == 2

Texts == {<< >>, <<" ">>, <<"a">>}

IsWhitespace(ch) == ch \in {" ", "\t", "\n"}

(* String.prototype.trim: the text without its leading and trailing white space. *)
RECURSIVE trimStart(_)
trimStart(text) ==
    IF text = << >> \/ ~IsWhitespace(Head(text)) THEN text ELSE trimStart(Tail(text))

RECURSIVE trimEnd(_)
trimEnd(text) ==
    IF text = << >> \/ ~IsWhitespace(text[Len(text)])
    THEN text
    ELSE trimEnd(SubSeq(text, 1, Len(text) - 1))

trim(text) == trimEnd(trimStart(text))

(* The members of VeoModel, AspectRatio and Resolution the form uses. *)
VEO == "veo-3.1-generate-preview"
VEO_FAST == "veo-3.1-fast-generate-preview"
VeoModel == {VEO, VEO_FAST}

LANDSCAPE == "16:9"
PORTRAIT == "9:16"
AspectRatio == {LANDSCAPE, PORTRAIT}

P720 == "720p"
P1080 == "1080p"
P4K == "4k"
Resolution == {P720, P1080, P4K}

(* Lines 453-458: the modes the mode selector offers. *)
selectableModes ==
    {TEXT_TO_VIDEO, STORY_MODE, FRAMES_TO_VIDEO, REFERENCES_TO_VIDEO}

(* Lines 421 and 427: the most and the fewest story prompts the handlers keep. *)
MaxStorySegments == 20
MinStorySegments == 2

(* Line 510: the most reference images the form takes. *)
maxRefsOfForm == 3

(* o ?? d *)
OrElse(o, d) == IF IsSome(o) THEN Get(o) ELSE d

(* Lines 255-290: the useState defaults, given the initialValues of the first
   render (None is null or undefined; so is each field that is not given). *)
initialState(v) ==
    LET given(k) == IF IsSome(v) THEN Get(v)[k] ELSE None
    IN [prompt |-> OrElse(given("prompt"), << >>),
        storyPrompts |-> OrElse(given("storyPrompts"), << << >>, << >> >>),
        model |-> OrElse(given("model"), VEO_FAST),
        aspectRatio |-> OrElse(given("aspectRatio"), LANDSCAPE),
        resolution |-> OrElse(given("resolution"), P720),
        generationMode |-> OrElse(given("mode"), TEXT_TO_VIDEO),
        startFrame |-> given("startFrame"),
        endFrame |-> given("endFrame"),
        referenceImages |-> OrElse(given("referenceImages"), << >>),
        styleImage |-> given("styleImage"),
        inputVideo |-> given("inputVideo"),
        inputVideoObject |-> given("inputVideoObject"),
        isLooping |-> OrElse(given("isLooping"), FALSE)]

(* Lines 298-314: the effect on initialValues; it writes every field when
   initialValues is given and nothing when it is not. *)
initialValuesEffect(f, v) == IF IsSome(v) THEN initialState(v) ELSE f

(* Lines 317-331: the body of the effect on generationMode. *)
modeRules(f) ==
    LET extend == IF f.generationMode = EXTEND_VIDEO
                  THEN [f EXCEPT !.resolution = P720] ELSE f
        refs == IF f.generationMode = REFERENCES_TO_VIDEO
                THEN [extend EXCEPT !.model = VEO, !.aspectRatio = LANDSCAPE,
                                    !.resolution = P720]
                ELSE extend
    IN IF f.generationMode = STORY_MODE
       THEN [refs EXCEPT !.model = VEO, !.resolution = P720]
       ELSE refs

(* Lines 316-332: the effect on generationMode runs after a render in which
   generationMode differs from the render before (its dependency list is
   [generationMode]); `before` and `after` are the states of the two renders. *)
modeEffect(before, after) ==
    IF after.generationMode # before.generationMode THEN modeRules(after) ELSE after

(* The first render: both effects run, the one on initialValues first. *)
mount(v) == modeRules(initialValuesEffect(initialState(v), v))

(* The submit test of Story mode without trim: only the empty text counts. *)
isSubmitDisabledNoTrim(f) ==
    CASE f.generationMode = TEXT_TO_VIDEO -> trim(f.prompt) = << >>
      [] f.generationMode = STORY_MODE ->
            \E k \in 1..Len(f.storyPrompts) : f.storyPrompts[k] = << >>
      [] f.generationMode = FRAMES_TO_VIDEO -> ~IsSome(f.startFrame)
      [] f.generationMode = REFERENCES_TO_VIDEO ->
            trim(f.prompt) = << >> \/ Len(f.referenceImages) = 0
      [] f.generationMode = EXTEND_VIDEO -> ~IsSome(f.inputVideoObject)

(* Lines 581-623: isSubmitDisabled, the disabled attribute of the submit button
   (line 812). *)
isSubmitDisabled(f) ==
    CASE f.generationMode = TEXT_TO_VIDEO -> trim(f.prompt) = << >>
      [] f.generationMode = STORY_MODE ->
            \E k \in 1..Len(f.storyPrompts) : trim(f.storyPrompts[k]) = << >>
      [] f.generationMode = FRAMES_TO_VIDEO -> ~IsSome(f.startFrame)
      [] f.generationMode = REFERENCES_TO_VIDEO ->
            trim(f.prompt) = << >> \/ Len(f.referenceImages) = 0
      [] f.generationMode = EXTEND_VIDEO -> ~IsSome(f.inputVideoObject)

(* Lines 576-579: the modes that lock settings. *)
isExtendMode(f) == f.generationMode = EXTEND_VIDEO
isReferenceMode(f) == f.generationMode = REFERENCES_TO_VIDEO
isStoryMode(f) == f.generationMode = STORY_MODE

(* The state an event's handler leaves once the render and the effect that
   follow it have run: `after` is the state the handler's setters gave. *)
settled(after) == modeEffect(form, after)

(* The initialValues a parent hands to the form: a request for each mode, model
   and resolution (in portrait), with what that mode needs to be submitted. *)
InitialValues ==
    {[prompt |-> Some(<<"a">>),
      storyPrompts |-> IF m = STORY_MODE THEN Some(<< <<"a">>, <<"a">> >>) ELSE None,
      model |-> Some(mdl),
      aspectRatio |-> Some(PORTRAIT),
      resolution |-> Some(res),
      mode |-> Some(m),
      startFrame |-> IF m = FRAMES_TO_VIDEO THEN Some(imgPlain) ELSE None,
      endFrame |-> None,
      referenceImages |-> IF m = REFERENCES_TO_VIDEO THEN Some(<<imgHero>>) ELSE None,
      styleImage |-> None,
      inputVideo |-> IF m = EXTEND_VIDEO THEN Some("previous.mp4") ELSE None,
      inputVideoObject |-> IF m = EXTEND_VIDEO THEN Some(vidInput) ELSE None,
      isLooping |-> None] :
        m \in GenerationMode, mdl \in VeoModel, res \in {P720, P1080}}

(* Lines 298-314: the parent renders the form with other initialValues. *)
UpdateInitialValues(v) ==
    /\ form' = settled(initialValuesEffect(form, v))
    /\ generated' = None
    /\ UNCHANGED orchVars
    /\ UNCHANGED buildVars

(* Lines 395-412, from a button of the mode selector (line 787). *)
handleSelectMode(mode) ==
    LET reset == [form EXCEPT !.generationMode = mode,
                              !.startFrame = None,
                              !.endFrame = None,
                              !.referenceImages = << >>,
                              !.styleImage = None,
                              !.inputVideo = None,
                              !.inputVideoObject = None,
                              !.isLooping = FALSE]
    IN /\ form' = settled(IF mode = STORY_MODE /\ Len(form.storyPrompts) < 2
                           THEN [reset EXCEPT !.storyPrompts = << << >>, << >> >>]
                           ELSE reset)
       /\ generated' = None
       /\ UNCHANGED orchVars
       /\ UNCHANGED buildVars

(* Lines 414-418, from the textarea of prompt `index` (line 637; 0-based, as in
   the source). *)
handleStoryPromptChange(index, value) ==
    /\ index < Len(form.storyPrompts)
    /\ form' = settled([form EXCEPT !.storyPrompts[index + 1] = value])
    /\ generated' = None
    /\ UNCHANGED orchVars
    /\ UNCHANGED buildVars

(* Lines 420-424. *)
addStorySegment ==
    /\ form' = settled(IF Len(form.storyPrompts) < MaxStorySegments
                        THEN [form EXCEPT !.storyPrompts = Append(@, << >>)]
                        ELSE form)
    /\ generated' = None
    /\ UNCHANGED orchVars
    /\ UNCHANGED buildVars

(* Lines 426-431; index is 0-based.  The filter keeps the order of the others. *)
removeStorySegment(index) ==
    /\ index < Len(form.storyPrompts)
    /\ form' = settled(IF Len(form.storyPrompts) > MinStorySegments
                        THEN [form EXCEPT !.storyPrompts =
                                 SubSeq(@, 1, index) \o SubSeq(@, index + 2, Len(@))]
                        ELSE form)
    /\ generated' = None
    /\ UNCHANGED orchVars
    /\ UNCHANGED buildVars

(* Line 679: the prompt's textarea, shown outside Story mode. *)
setPrompt(value) ==
    /\ ~isStoryMode(form)
    /\ form' = settled([form EXCEPT !.prompt = value])
    /\ generated' = None
    /\ UNCHANGED orchVars
    /\ UNCHANGED buildVars

(* Lines 696-698: the model select, disabled in References and Story mode. *)
setModel(value) ==
    /\ ~(isReferenceMode(form) \/ isStoryMode(form))
    /\ form' = settled([form EXCEPT !.model = value])
    /\ generated' = None
    /\ UNCHANGED orchVars
    /\ UNCHANGED buildVars

(* Lines 720-722: the aspect ratio select, disabled in References mode. *)
setAspectRatio(value) ==
    /\ ~isReferenceMode(form)
    /\ form' = settled([form EXCEPT !.aspectRatio = value])
    /\ generated' = None
    /\ UNCHANGED orchVars
    /\ UNCHANGED buildVars

(* Lines 739-741: the resolution select, disabled in Extend, References and
   Story mode. *)
setResolution(value) ==
    /\ ~(isExtendMode(form) \/ isReferenceMode(form) \/ isStoryMode(form))
    /\ form' = settled([form EXCEPT !.resolution = value])
    /\ generated' = None
    /\ UNCHANGED orchVars
    /\ UNCHANGED buildVars

(* Lines 468-472: a start frame is chosen, in Frames mode. *)
setStartFrame(image) ==
    /\ form.generationMode = FRAMES_TO_VIDEO
    /\ form' = settled([form EXCEPT !.startFrame = Some(image)])
    /\ generated' = None
    /\ UNCHANGED orchVars
    /\ UNCHANGED buildVars

(* Lines 542-548: a reference image is added, in References and Story mode,
   while there are fewer than three. *)
addReferenceImage(image) ==
    /\ isReferenceMode(form) \/ isStoryMode(form)
    /\ Len(form.referenceImages) < maxRefsOfForm
    /\ form' = settled([form EXCEPT !.referenceImages = Append(@, image)])
    /\ generated' = None
    /\ UNCHANGED orchVars
    /\ UNCHANGED buildVars

(* Lines 566-570: the input video is removed, in Extend mode. *)
removeInputVideo ==
    /\ isExtendMode(form)
    /\ form' = settled([form EXCEPT !.inputVideo = None, !.inputVideoObject = None])
    /\ generated' = None
    /\ UNCHANGED orchVars
    /\ UNCHANGED buildVars

(* Lines 358-393, from the submit button, which is disabled when
   isSubmitDisabled (line 812). *)
handleSubmit ==
    /\ ~isSubmitDisabled(form)
    /\ generated' = Some([prompt |-> form.prompt,
                          storyPrompts |-> form.storyPrompts,
                          model |-> form.model,
                          aspectRatio |-> form.aspectRatio,
                          resolution |-> form.resolution,
                          mode |-> form.generationMode,
                          startFrame |-> form.startFrame,
                          endFrame |-> form.endFrame,
                          referenceImages |-> form.referenceImages,
                          styleImage |-> form.styleImage,
                          inputVideo |-> form.inputVideo,
                          inputVideoObject |-> form.inputVideoObject,
                          isLooping |-> form.isLooping])
    /\ UNCHANGED form
    /\ UNCHANGED orchVars
    /\ UNCHANGED buildVars

(* The form before it is shown: its defaults, nothing handed to onGenerate. *)
FormIdle ==
    /\ form = mount(None)
    /\ generated = None

----------------------------------------------------------------------------
(* Specifications *)

BuildIdle ==
    /\ bParams = CHOOSE r \in BuildRequests : TRUE
    /\ bOverridePrompt = None
    /\ bOverrideVideo = None
    /\ bBuilt = None
    /\ builds = << >>

Init ==
    /\ params \in [Calls -> Requests]
    /\ pc = [c \in Calls |-> "start"]
    /\ i = [c \in Calls |-> 0]
    /\ currentResult = [c \in Calls |-> None]
    /\ operation = [c \in Calls |-> None]
    /\ pending = [c \in Calls |-> None]
    /\ trace = [c \in Calls |-> << >>]
    /\ produced = [c \in Calls |-> << >>]
    /\ outcome = [c \in Calls |-> None]
    /\ BuildIdle
    /\ FormIdle

Next ==
    \/ \E c \in Calls : Generate(c)
    \/ \E c \in Calls : SubmitSettles(c)
    \/ \E c \in Calls : TimerFires(c)
    \/ \E c \in Calls : PollSettles(c)
    \/ \E c \in Calls : FetchSettles(c)
    \/ \E c \in Calls : BlobSettles(c)
    \/ \E c \in Calls : ReturnSingle(c)
    \/ \E c \in Calls : StoryContinue(c)

Spec == Init /\ [][Next]_vars

(* The builder on its own: every input, built once. *)
InitBuild ==
    /\ BuildInit
    /\ params = [c \in Calls |-> CHOOSE r \in Requests : TRUE]
    /\ pc = [c \in Calls |-> "start"]
    /\ i = [c \in Calls |-> 0]
    /\ currentResult = [c \in Calls |-> None]
    /\ operation = [c \in Calls |-> None]
    /\ pending = [c \in Calls |-> None]
    /\ trace = [c \in Calls |-> << >>]
    /\ produced = [c \in Calls |-> << >>]
    /\ outcome = [c \in Calls |-> None]
    /\ FormIdle

NextBuild == Build

SpecBuild == InitBuild /\ [][NextBuild]_vars

(* The builder called up to MaxBuilds times at any moment of a generateVideo
   call. *)
InitRebuild ==
    /\ Init
    /\ params \in [Calls -> RebuildRequests]

NextRebuild ==
    \/ \E c \in Calls : Generate(c)
    \/ \E c \in Calls : SubmitSettles(c)
    \/ \E c \in Calls : TimerFires(c)
    \/ \E c \in Calls : PollSettles(c)
    \/ \E c \in Calls : FetchSettles(c)
    \/ \E c \in Calls : BlobSettles(c)
    \/ \E c \in Calls : ReturnSingle(c)
    \/ \E c \in Calls : StoryContinue(c)
    \/ \E c \in Calls : \E inp \in RebuildInputs(c) : Rebuild(c, inp)

SpecRebuild == InitRebuild /\ [][NextRebuild]_vars

(* The event loop runs a continuation once its promise has settled, a timer
   fires once its delay has passed, and every remote call returns. *)
Fairness ==
    \A c \in Calls :
        /\ WF_vars(Generate(c))
        /\ WF_vars(SubmitSettles(c))
        /\ WF_vars(TimerFires(c))
        /\ WF_vars(PollSettles(c))
        /\ WF_vars(FetchSettles(c))
        /\ WF_vars(BlobSettles(c))
        /\ WF_vars(ReturnSingle(c))
        /\ WF_vars(StoryContinue(c))

SpecLive == Init /\ [][Next]_vars /\ Fairness

(* The service while only the form is used: no call has been made. *)
ServiceIdle ==
    /\ params = [c \in Calls |-> CHOOSE r \in Requests : TRUE]
    /\ pc = [c \in Calls |-> "start"]
    /\ i = [c \in Calls |-> 0]
    /\ currentResult = [c \in Calls |-> None]
    /\ operation = [c \in Calls |-> None]
    /\ pending = [c \in Calls |-> None]
    /\ trace = [c \in Calls |-> << >>]
    /\ produced = [c \in Calls |-> << >>]
    /\ outcome = [c \in Calls |-> None]
    /\ BuildIdle

(* The form mounted with any initialValues or none, then used in any way while
   its parent hands it other initialValues at any moment. *)
InitForm ==
    /\ \E v \in {None} \cup {Some(x) : x \in InitialValues} : form = mount(v)
    /\ generated = None
    /\ ServiceIdle

NextForm ==
    \/ \E v \in {None} \cup {Some(x) : x \in InitialValues} : UpdateInitialValues(v)
    \/ \E mode \in selectableModes : handleSelectMode(mode)
    \/ \E index \in 0..(MaxEdit - 1) : \E value \in Texts :
          handleStoryPromptChange(index, value)
    \/ addStorySegment
    \/ \E index \in 0..(MaxStorySegments - 1) : removeStorySegment(index)
    \/ \E value \in Texts : setPrompt(value)
    \/ \E value \in VeoModel : setModel(value)
    \/ \E value \in AspectRatio : setAspectRatio(value)
    \/ \E value \in Resolution : setResolution(value)
    \/ setStartFrame(imgPlain)
    \/ addReferenceImage(imgHero)
    \/ removeInputVideo
    \/ handleSubmit

SpecForm == InitForm /\ [][NextForm]_vars

(* The form mounted without initialValues and used through its own controls. *)
InitFormUser ==
    /\ FormIdle
    /\ ServiceIdle

NextFormUser ==
    \/ \E mode \in selectableModes : handleSelectMode(mode)
    \/ \E index \in 0..(MaxEdit - 1) : \E value \in Texts :
          handleStoryPromptChange(index, value)
    \/ addStorySegment
    \/ \E index \in 0..(MaxStorySegments - 1) : removeStorySegment(index)
    \/ \E value \in Texts : setPrompt(value)
    \/ \E value \in VeoModel : setModel(value)
    \/ \E value \in AspectRatio : setAspectRatio(value)
    \/ \E value \in Resolution : setResolution(value)
    \/ setStartFrame(imgPlain)
    \/ addReferenceImage(imgHero)
    \/ handleSubmit

SpecFormUser == InitFormUser /\ [][NextFormUser]_vars

(* Two generateVideo calls in flight at once: each runs its continuations in
   any order relative to the other's. *)
TwoRequests == {r \in RebuildRequests : r.mode # EXTEND_VIDEO}

InitTwo ==
    /\ params \in [TwoCalls -> TwoRequests]
    /\ pc = [c \in TwoCalls |-> "start"]
    /\ i = [c \in TwoCalls |-> 0]
    /\ currentResult = [c \in TwoCalls |-> None]
    /\ operation = [c \in TwoCalls |-> None]
    /\ pending = [c \in TwoCalls |-> None]
    /\ trace = [c \in TwoCalls |-> << >>]
    /\ produced = [c \in TwoCalls |-> << >>]
    /\ outcome = [c \in TwoCalls |-> None]
    /\ BuildIdle
    /\ FormIdle

NextTwo ==
    \/ \E c \in TwoCalls : Generate(c)
    \/ \E c \in TwoCalls : SubmitSettles(c)
    \/ \E c \in TwoCalls : TimerFires(c)
    \/ \E c \in TwoCalls : PollSettles(c)
    \/ \E c \in TwoCalls : FetchSettles(c)
    \/ \E c \in TwoCalls : BlobSettles(c)
    \/ \E c \in TwoCalls : ReturnSingle(c)
    \/ \E c \in TwoCalls : StoryContinue(c)

SpecTwo == InitTwo /\ [][NextTwo]_vars

----------------------------------------------------------------------------
(* Vocabulary of the properties.  These read the request and the trace only;
   they do not use the definitions that model the service. *)

IsStoryRequest(p) ==
    p.mode = STORY_MODE /\ IsSome(p.storyPrompts) /\ Len(Get(p.storyPrompts)) >= 1

ExpectedSteps(p) == IF IsStoryRequest(p) THEN Len(Get(p.storyPrompts)) ELSE 1

(* The job (1-based) the event at position j belongs to. *)
JobAt(tr, j) == Count(SubSeq(tr, 1, j), "submit")

(* The part of the trace that belongs to the job of position j: from that job's
   submission up to the next submission (or the end of the trace). *)
JobStart(tr, j) ==
    CHOOSE h \in 1..j :
        tr[h].type = "submit" /\ \A g \in (h + 1)..j : tr[g].type # "submit"
JobEnd(tr, j) ==
    IF \E h \in (j + 1)..Len(tr) : tr[h].type = "submit"
    THEN (CHOOSE h \in (j + 1)..Len(tr) :
             tr[h].type = "submit" /\ \A g \in (j + 1)..(h - 1) : tr[g].type # "submit")
         - 1
    ELSE Len(tr)
CycleOf(tr, j) == SubSeq(tr, JobStart(tr, j), JobEnd(tr, j))

IsAnswer(e, to) == e.type = "answer" /\ e.to = to /\ ~e.rejected
IsHandle(e) == IsAnswer(e, "submit") \/ IsAnswer(e, "poll")
IsDoneHandle(e) == IsHandle(e) /\ e.value.done
IsRunningHandle(e) == IsHandle(e) /\ ~e.value.done
IsCycleDone(e) == IsAnswer(e, "blob")

HasFieldIn(rec, k) == k \in DOMAIN rec

(* The terminal response lists no asset: the list is absent or empty. *)
ListsNoAsset(op) ==
    /\ IsSome(op.response)
    /\ \/ Get(op.response).generatedVideos = None
       \/ Get(op.response).generatedVideos = Some(<< >>)

(* The first descriptor of the terminal response carries a location. *)
FirstHasLocation(op) ==
    /\ IsSome(op.response)
    /\ ~ListsNoAsset(op)
    /\ LET first == Get(Get(op.response).generatedVideos)[1]
       IN /\ first.video # None
          /\ Get(first.video).uri # None
          /\ Get(first.video).uri # Some(<< >>)

(* The location of the first descriptor, when FirstHasLocation. *)
FirstLocation(op) == Get(Get(Get(Get(op.response).generatedVideos)[1].video).uri)

(* Locations the model uses that are not valid percent-encodings. *)
Undecodable(uri) == uri = uriMalformed

(* The error each failing answer stands for, in the error taxonomy. *)
IsFailure(e) ==
    /\ e.type = "answer"
    /\ \/ e.rejected
       \/ /\ IsDoneHandle(e)
          /\ \/ ~FirstHasLocation(e.value)
             \/ Undecodable(FirstLocation(e.value))
       \/ /\ IsAnswer(e, "fetch")
          /\ ~e.value.ok

ErrorOf(e) ==
    IF e.rejected
    THEN (CASE e.to = "submit" -> SubmissionRejected
            [] e.to = "poll" -> PollRejected
            [] e.to = "fetch" -> FetchRejected
            [] e.to = "blob" -> BlobRejected)
    ELSE IF e.to = "fetch"
         THEN "Failed to fetch video: " \o ToString(e.value.status)
                 \o " " \o e.value.statusText
    ELSE IF e.value.response = None THEN GenerationFailed
    ELSE IF ListsNoAsset(e.value) THEN NoAssetsProduced
    ELSE IF ~FirstHasLocation(e.value) THEN MissingAssetLocator
    ELSE URIMalformed

(* No reference image of the request carries a label. *)
NoLabels(p) ==
    \/ p.referenceImages = None
    \/ \A idx \in 1..Len(Get(p.referenceImages)) :
           Get(p.referenceImages)[idx].description = ""

IsRejectedWith(o, err) == o = Some([status |-> "rejected", error |-> err])
IsResolved(o) == o # None /\ Get(o).status = "resolved"

----------------------------------------------------------------------------
(* Properties of generateVideo, checked under Spec *)

Submissions(c) == OfType(trace[c], "submit")

(* C1: for a story request of n >= 1 prompts, the submissions made so far are at
   most n and follow the prompts in order (each non-blank prompt is the prompt of
   its own submission, step 1's followed by the reference labels if any); for every
   k > 1 the k-th submission's video field is the video of the result step k-1
   produced; once all n steps have produced a result there are exactly n
   submissions, and the value generateVideo resolves with is step n's result. *)
C1_StoryChain ==
    \A c \in DOMAIN pc :
        IsStoryRequest(params[c]) =>
            LET prompts == Get(params[c].storyPrompts)
                n == Len(prompts)
                subs == Submissions(c)
            IN /\ Len(subs) <= n
               /\ Len(produced[c]) <= Len(subs)
               /\ \A k \in 1..Len(subs) :
                     /\ k > 1 =>
                           /\ Len(produced[c]) >= k - 1
                           /\ HasFieldIn(subs[k].payload, "video")
                           /\ subs[k].payload.video = produced[c][k - 1].video
                     /\ k = 1 => ~HasFieldIn(subs[k].payload, "video")
                     /\ (prompts[k] # "" /\ k > 1) =>
                           /\ HasFieldIn(subs[k].payload, "prompt")
                           /\ subs[k].payload.prompt = prompts[k]
                     /\ (prompts[k] # "" /\ k = 1) =>
                           /\ HasFieldIn(subs[k].payload, "prompt")
                           /\ NoLabels(params[c]) =>
                                 subs[k].payload.prompt = prompts[k]
               /\ Len(produced[c]) = n =>
                     /\ Len(subs) = n
                     /\ pc[c] \in {"returned", "done"}
               /\ pc[c] = "done" =>
                     /\ Len(produced[c]) = n
                     /\ outcome[c] = Resolved(produced[c][n])

(* A story of at least three steps has run to its end, with two different
   videos handed from step to step. *)
C1_Witness ==
    \E c \in DOMAIN pc :
        /\ IsStoryRequest(params[c])
        /\ Len(Get(params[c].storyPrompts)) >= 3
        /\ pc[c] = "done"
        /\ produced[c][1].video # produced[c][2].video

(* C2: within one call the jobs run one after the other: a submission other than
   the first comes directly after the previous job's cycle reached Done (its asset
   was fetched and read); every poll queries the job submitted last, and every
   fetch follows directly on that job's done handle; so no poll or fetch of job k
   comes after job k+1 was submitted, and at most one cycle is unfinished. *)
C2_Sequential ==
    \A c \in DOMAIN pc :
        LET tr == trace[c]
        IN /\ \A j \in 1..Len(tr) :
                 /\ (tr[j].type = "submit" /\ j > 1) => IsCycleDone(tr[j - 1])
                 /\ tr[j].type = "poll" => tr[j].job = JobAt(tr, j)
                 /\ tr[j].type = "fetch" =>
                       /\ j > 1
                       /\ IsDoneHandle(tr[j - 1])
                       /\ tr[j - 1].value.name = JobAt(tr, j)
           /\ Count(tr, "submit")
                 - Len(SelectSeq(tr, IsCycleDone))
                 - Len(SelectSeq(tr, IsFailure)) \in {0, 1}

(* The second job of a story has been polled and its asset fetched. *)
C2_Witness ==
    \E c \in DOMAIN pc :
        \E j \in 1..Len(trace[c]) :
            /\ trace[c][j].type = "fetch"
            /\ JobAt(trace[c], j) = 2
            /\ \E h \in 1..j : trace[c][h].type = "poll" /\ trace[c][h].job = 2

(* C3: every error is terminal and nothing is retried: a failing answer (a
   rejected call, a done handle without a usable response, a fetch that is not
   ok) is the last event of the call's trace, the call is rejected with exactly
   that error, and a rejected call has no result; a call that failed before any
   remote call failed in the build, and is rejected with the build's error. *)
C3_ErrorsTerminal ==
    \A c \in DOMAIN pc :
        LET tr == trace[c]
        IN /\ \A j \in 1..Len(tr) :
                 IsFailure(tr[j]) =>
                    /\ j = Len(tr)
                    /\ pc[c] = "failed"
                    /\ IsRejectedWith(outcome[c], ErrorOf(tr[j]))
           /\ pc[c] = "failed" =>
                 /\ outcome[c] # None
                 /\ Get(outcome[c]).status = "rejected"
                 /\ ~HasFieldIn(Get(outcome[c]), "result")
                 /\ Len(tr) > 0 => IsFailure(tr[Len(tr)])
                 /\ Len(tr) = 0 =>
                       IsRejectedWith(outcome[c],
                          "An input video object is required to extend a video.")
           /\ (outcome[c] # None /\ Get(outcome[c]).status = "rejected") =>
                 pc[c] = "failed"

(* A story has failed at its second step, after the first step produced a result. *)
C3_Witness ==
    \E c \in DOMAIN pc :
        /\ pc[c] = "failed"
        /\ Len(produced[c]) = 1
        /\ Count(trace[c], "submit") = 2
        /\ IsRejectedWith(outcome[c], "Failed to fetch video: 403 Forbidden")

(* C4: a call resolves with at most one result, and only when it is done; a call
   whose steps all produced a result resolves with exactly the last step's
   result (the single step's, or the story's final step's), never an earlier one
   and never the list of them. *)
C4_OneResult ==
    \A c \in DOMAIN pc :
        LET n == ExpectedSteps(params[c])
        IN /\ IsResolved(outcome[c]) =>
                 /\ pc[c] = "done"
                 /\ Len(produced[c]) = n
                 /\ Get(outcome[c]).result = produced[c][n]
           /\ pc[c] = "done" => IsResolved(outcome[c])
           /\ Len(produced[c]) <= n
           /\ Len(produced[c]) = n => pc[c] \in {"returned", "done"}
           /\ Len(produced[c]) < n => ~IsResolved(outcome[c])

(* A story of several steps has resolved, and its result differs from the first
   step's result. *)
C4_Witness ==
    \E c \in DOMAIN pc :
        /\ IsResolved(outcome[c])
        /\ Len(produced[c]) >= 2
        /\ Get(outcome[c]).result # produced[c][1]

(* C8: an ExtendVideo request without inputVideoObject fails with
   MissingExtensionSource as soon as generateVideo runs, and no submit, poll or
   fetch call is ever made for it. *)
C8_MissingExtensionSource ==
    \A c \in DOMAIN pc :
        (/\ params[c].mode = EXTEND_VIDEO
         /\ params[c].inputVideoObject = None
         /\ pc[c] # "start") =>
            /\ pc[c] = "failed"
            /\ IsRejectedWith(outcome[c],
                              "An input video object is required to extend a video.")
            /\ Count(trace[c], "submit") = 0
            /\ Count(trace[c], "poll") = 0
            /\ Count(trace[c], "fetch") = 0

(* generateVideo has run on an ExtendVideo request without inputVideoObject. *)
C8_Witness ==
    \E c \in DOMAIN pc :
        /\ params[c].mode = EXTEND_VIDEO
        /\ params[c].inputVideoObject = None
        /\ pc[c] = "failed"

IsRunningPollAnswer(e) == IsAnswer(e, "poll") /\ ~e.value.done

(* The first descriptor of a done handle has a location that can be decoded. *)
HasUsableAsset(op) ==
    FirstHasLocation(op) /\ ~Undecodable(FirstLocation(op))

(* C9: in one job cycle, when polls were answered done=false m times and then
   done=true, exactly m+1 polls were made, and exactly one fetch when the done
   handle carries a usable asset descriptor; every poll comes directly after one
   wait of 10 seconds that follows a handle (of the same job) that was not done;
   no poll is made for a job after one of its handles reported done. *)
C9_PollLoop ==
    \A c \in DOMAIN pc :
        LET tr == trace[c]
        IN \A j \in 1..Len(tr) :
              /\ tr[j].type = "poll" =>
                    /\ j >= 3
                    /\ tr[j - 1] = [type |-> "wait", ms |-> 10000]
                    /\ IsRunningHandle(tr[j - 2])
                    /\ tr[j - 2].value.name = tr[j].job
              /\ tr[j].type = "wait" => (j < Len(tr) /\ tr[j + 1].type = "poll")
              /\ IsDoneHandle(tr[j]) =>
                    /\ Count(SubSeq(tr, j + 1, JobEnd(tr, j)), "poll") = 0
                    /\ HasUsableAsset(tr[j].value) =>
                          Count(CycleOf(tr, j), "fetch") = 1
                    /\ tr[j].to = "poll" =>
                          Count(CycleOf(tr, j), "poll")
                             = Len(SelectSeq(CycleOf(tr, j), IsRunningPollAnswer)) + 1

(* A poll was answered done=false three times and then done=true with one asset
   descriptor: four polls, one fetch. *)
C9_Witness ==
    \E c \in DOMAIN pc :
        LET tr == trace[c]
        IN \E j \in 1..Len(tr) :
              /\ IsDoneHandle(tr[j])
              /\ tr[j].to = "poll"
              /\ tr[j].value.response = Some([generatedVideos |-> Some(<<genA>>)])
              /\ Len(SelectSeq(CycleOf(tr, j), IsRunningPollAnswer)) = 3
              /\ Count(CycleOf(tr, j), "poll") = 4
              /\ Count(CycleOf(tr, j), "fetch") = 1

(* C10: a done handle whose response lists no asset (the list is empty or
   absent) ends the cycle with NoAssetsProduced, and no fetch is made for that
   job. *)
C10_NoAssets ==
    \A c \in DOMAIN pc :
        LET tr == trace[c]
        IN \A j \in 1..Len(tr) :
              (IsDoneHandle(tr[j]) /\ ListsNoAsset(tr[j].value)) =>
                 /\ j = Len(tr)
                 /\ pc[c] = "failed"
                 /\ IsRejectedWith(outcome[c], "No videos were generated.")
                 /\ Count(CycleOf(tr, j), "fetch") = 0

(* A job was polled to completion and its response carried an empty list. *)
C10_Witness ==
    \E c \in DOMAIN pc :
        /\ Len(trace[c]) > 0
        /\ IsDoneHandle(trace[c][Len(trace[c])])
        /\ trace[c][Len(trace[c])].to = "poll"
        /\ trace[c][Len(trace[c])].value.response = Some([generatedVideos |-> Some(<< >>)])
        /\ pc[c] = "failed"

----------------------------------------------------------------------------
(* Properties of the Job Submission Builder, checked under SpecBuild *)

BuiltPayload == Get(bBuilt).payload
HasBuilt == bBuilt # None /\ ~Get(bBuilt).threw

(* C5: when the mode is not ExtendVideo and no prior-video override is given, the
   build succeeds, the payload has no video field (also when the request carries
   an inputVideoObject) and its config carries the request's aspect ratio. *)
C5_NoPriorVideo ==
    (bBuilt # None /\ bParams.mode # EXTEND_VIDEO /\ bOverrideVideo = None) =>
        /\ ~Get(bBuilt).threw
        /\ ~HasFieldIn(BuiltPayload, "video")
        /\ HasFieldIn(BuiltPayload.config, "aspectRatio")
        /\ BuiltPayload.config.aspectRatio = bParams.aspectRatio

(* A request of another mode that carries an inputVideoObject was built. *)
C5_Witness ==
    /\ HasBuilt
    /\ bParams.mode = TEXT_TO_VIDEO
    /\ bParams.inputVideoObject # None
    /\ bOverrideVideo = None

(* C6: when the mode is ExtendVideo, or a prior-video override is given whatever
   the mode, the payload's config has no aspectRatio. *)
C6_NoAspectRatio ==
    (HasBuilt /\ (bParams.mode = EXTEND_VIDEO \/ bOverrideVideo # None)) =>
        ~HasFieldIn(BuiltPayload.config, "aspectRatio")

(* A build of another mode with a prior-video override was made. *)
C6_Witness ==
    /\ HasBuilt
    /\ bParams.mode = REFERENCES_TO_VIDEO
    /\ bOverrideVideo # None

(* The labels the request's reference images contribute, from position k on:
   "(Reference i: label)" for each image with a non-empty label, i its position
   in the whole list, separated by single spaces. *)
RECURSIVE LabelsFrom(_, _)
LabelsFrom(refs, k) ==
    IF k > Len(refs) THEN ""
    ELSE LET rest == LabelsFrom(refs, k + 1)
             mine == IF refs[k].description = "" THEN ""
                     ELSE "(Reference " \o ToString(k) \o ": "
                             \o refs[k].description \o ")"
         IN IF mine = "" THEN rest
            ELSE IF rest = "" THEN mine
            ELSE mine \o " " \o rest

(* The base prompt followed by the labels, unless the build is an extension. *)
WithLabels(base) ==
    LET extension == bParams.mode = EXTEND_VIDEO \/ bOverrideVideo # None
        labels == IF extension \/ bParams.referenceImages = None THEN ""
                  ELSE LabelsFrom(Get(bParams.referenceImages), 1)
    IN IF labels = "" THEN base
       ELSE IF base = "" THEN labels
       ELSE base \o " " \o labels

(* The prompt of the built payload; a payload without prompt has the empty one. *)
BuiltPrompt == IF HasFieldIn(BuiltPayload, "prompt") THEN BuiltPayload.prompt ELSE ""

(* C7: the effective prompt is the override prompt if one is given, else the
   request prompt, followed (unless the build is an extension) by the labels of
   the reference images: "(Reference i: label)" for each non-empty label, i the
   image's 1-based position in the whole list, joined by single spaces and put
   after the base prompt with one space, or alone when the base prompt is empty;
   references [(img1, "Hero"), (img2, "")] with prompt "A chase" give
   "A chase (Reference 1: Hero)". *)
C7_EffectivePrompt ==
    HasBuilt =>
        /\ BuiltPrompt = WithLabels(IF bOverridePrompt # None
                                    THEN Get(bOverridePrompt) ELSE bParams.prompt)
        /\ (/\ bParams.mode = REFERENCES_TO_VIDEO
            /\ bParams.prompt = "A chase"
            /\ bParams.referenceImages = Some(<<imgHero, imgPlain>>)
            /\ bOverridePrompt = None
            /\ bOverrideVideo = None) =>
               BuiltPrompt = "A chase (Reference 1: Hero)"

(* C7, for every build whose override prompt is absent or not empty: the
   statement of C7 holds of it. *)
C7_PromptUnlessEmptyOverride ==
    (HasBuilt /\ bOverridePrompt # Some("")) => C7_EffectivePrompt

(* A labelled image stands second in the list, after an unlabelled one, in a
   build that is no extension; and a build with an override prompt. *)
C7_Witness ==
    /\ HasBuilt
    /\ bParams.referenceImages = Some(<<imgPlain, imgHero>>)
    /\ bParams.mode = REFERENCES_TO_VIDEO
    /\ bOverridePrompt = Some("continue")
    /\ bOverrideVideo = None
    /\ BuiltPrompt = "continue (Reference 2: Hero)"


----------------------------------------------------------------------------
(* Properties of the builder called repeatedly, checked under SpecRebuild *)

(* The input of step k > 1 of a story call, once step k-1 has produced. *)
StepInput(c, k) ==
    [request |-> params[c],
     overridePrompt |-> Some(Get(params[c].storyPrompts)[k]),
     overrideVideoInput |-> Some(produced[c][k - 1].video)]

(* The input of a call that is no story. *)
SingleInput(c) ==
    [request |-> params[c], overridePrompt |-> None, overrideVideoInput |-> None]

(* C11: any two builds on identical (request, prompt override, prior-video
   override) give identical outcomes (the same payload, or the same error),
   whatever was built and whatever a generateVideo call did in between; and a
   build on the input of a step of a generateVideo call gives the payload that
   call submitted for the step (or fails as that call failed). *)
C11_BuilderDeterministic ==
    /\ \A a, b \in 1..Len(builds) :
           builds[a].input = builds[b].input => builds[a].built = builds[b].built
    /\ \A c \in DOMAIN pc : \A a \in 1..Len(builds) :
           /\ (/\ ~IsStoryRequest(params[c])
               /\ builds[a].input = SingleInput(c)
               /\ pc[c] # "start") =>
                  IF Len(Submissions(c)) = 0
                  THEN builds[a].built.threw
                  ELSE /\ ~builds[a].built.threw
                       /\ builds[a].built.payload = Submissions(c)[1].payload
           /\ \A k \in 2..Len(Submissions(c)) :
                  (IsStoryRequest(params[c]) /\ builds[a].input = StepInput(c, k)) =>
                     /\ ~builds[a].built.threw
                     /\ builds[a].built.payload = Submissions(c)[k].payload

(* The same extension input was built before the call submitted anything and
   again after it submitted its second step, with another build in between,
   and it is the input of that second step. *)
C11_Witness ==
    \E c \in DOMAIN pc :
        /\ Len(builds) = 3
        /\ builds[1].input = builds[3].input
        /\ builds[2].input # builds[1].input
        /\ builds[1].submitted = 0
        /\ builds[3].submitted = 2
        /\ IsStoryRequest(params[c])
        /\ builds[1].input = StepInput(c, 2)


----------------------------------------------------------------------------
(* Properties of the polling loop over time, checked under SpecLive *)

InPollLoop(c) == pc[c] \in {"timer", "poll"}

(* The call leaves its polling loop in this step. *)
LeavesPollLoop(c) == InPollLoop(c) /\ pc'[c] \notin {"timer", "poll"}

(* Among the answers the call receives in this step there is a handle that
   reports done, or a poll that failed. *)
DoneOrPollFailedNext(c) ==
    \E j \in (Len(trace[c]) + 1)..Len(trace'[c]) :
        LET e == trace'[c][j]
        IN /\ e.type = "answer"
           /\ \/ e.rejected /\ e.to = "poll"
              \/ ~e.rejected /\ e.to \in {"submit", "poll"} /\ e.value.done

(* C12: the polling loop has no cap and no timeout: while the call is in the
   loop it is neither resolved nor rejected; it leaves the loop only on a handle
   that reports done or on a poll that fails, however many polls were made; each
   handle that is not done is followed by another poll; and when every job
   reports done after finitely many polls and every remote call returns, the
   call is eventually resolved or rejected. *)
C12_PollingUnbounded ==
    /\ [](\A c \in Calls : InPollLoop(c) => outcome[c] = None)
    /\ [][\A c \in Calls : LeavesPollLoop(c) => DoneOrPollFailedNext(c)]_vars
    /\ \A c \in Calls : (pc[c] = "timer") ~> (pc[c] = "poll")
    /\ \A c \in Calls : <>(outcome[c] # None)

(* A job was reported not done as many times as the remote service may in the
   model, the call polled again each time, and the call then resolved. *)
C12_Witness ==
    \E c \in DOMAIN pc :
        /\ Len(SelectSeq(trace[c], IsRunningHandle)) = MaxNotDone
        /\ Count(trace[c], "poll") = MaxNotDone
        /\ IsResolved(outcome[c])


----------------------------------------------------------------------------
(* Properties of two calls in flight, checked under SpecTwo *)

(* The events of the k-th job of a trace. *)
KthCycle(tr, k) ==
    CycleOf(tr, CHOOSE j \in 1..Len(tr) : tr[j].type = "submit" /\ JobAt(tr, j) = k)

(* The result the k-th job of a trace yields, read off that job's own events:
   the video of its done handle, the address it fetched without the key suffix,
   and the body it read. *)
OwnResult(tr, k) ==
    LET cyc == KthCycle(tr, k)
        handle == SelectSeq(cyc, IsDoneHandle)[1]
        fetched == OfType(cyc, "fetch")[1]
        body == SelectSeq(cyc, IsCycleDone)[1]
    IN [objectUrl |-> [objectUrlOf |-> body.value],
        blob |-> body.value,
        uri |-> SubSeq(fetched.address, 1, Len(fetched.address) - 2),
        video |-> Get(Get(Get(handle.value.response).generatedVideos)[1].video)]

(* C13: with two calls in flight, under every interleaving, each call's step
   index counts its own finished steps, its current result is its own latest
   result, every result is made of the events of its own job, the video sent at
   step k > 1 is the video of its own step k-1, and its outcome is what its own
   trace determines: resolved with its own last result once all its steps
   produced one, rejected with the error of its own failing answer. *)
C13_CallsIndependent ==
    \A c \in DOMAIN pc :
        LET tr == trace[c]
            n == ExpectedSteps(params[c])
            subs == OfType(tr, "submit")
            story == IsStoryRequest(params[c])
            finished == Len(produced[c]) - (IF pc[c] = "returned" THEN 1 ELSE 0)
        IN /\ i[c] = IF story THEN finished ELSE 0
           /\ currentResult[c] = IF story /\ finished > 0
                                 THEN Some(produced[c][finished]) ELSE None
           /\ \A k \in 1..Len(produced[c]) : produced[c][k] = OwnResult(tr, k)
           /\ Len(subs) <= n
           /\ \A k \in 2..Len(subs) :
                 /\ HasFieldIn(subs[k].payload, "video")
                 /\ subs[k].payload.video = produced[c][k - 1].video
           /\ IsResolved(outcome[c]) <=> (pc[c] = "done")
           /\ IsResolved(outcome[c]) =>
                 /\ Len(produced[c]) = n
                 /\ Get(outcome[c]).result = produced[c][n]
           /\ (outcome[c] # None /\ ~IsResolved(outcome[c])) =>
                 /\ Len(tr) > 0
                 /\ IsFailure(tr[Len(tr)])
                 /\ IsRejectedWith(outcome[c], ErrorOf(tr[Len(tr)]))

(* Both calls are in the middle of their stories at once: the first has
   submitted its second step while the second is still fetching its first
   video, a different one. *)
C13_Witness ==
    /\ DOMAIN pc = {"first", "second"}
    /\ pc["first"] = "submit"
    /\ Count(trace["first"], "submit") = 2
    /\ pc["second"] = "fetch"
    /\ Count(trace["second"], "submit") = 1
    /\ Get(pending["second"]).videoObject # produced["first"][1].video


----------------------------------------------------------------------------
(* Properties of the steps of one Remote Job Cycle, checked under Spec *)

(* The state of the running cycle, by the suspend point the call is at.  The
   loop test of line 137 is part of Polling, the response checks of lines
   143-154 are made on leaving it. *)
CyclePhase(at) ==
    CASE at = "submit" -> "Submitting"
      [] at \in {"timer", "poll"} -> "Polling"
      [] at \in {"fetch", "blob"} -> "Fetching"
      [] at \in {"returned", "done"} -> "Done"
      [] at = "failed" -> "Failed"
      [] OTHER -> "NotStarted"

(* One step of call c, as far as its cycle is concerned. *)
CycleStepAllowed(c) ==
    LET from == CyclePhase(pc[c])
        to == CyclePhase(pc'[c])
        newEvents == SubSeq(trace'[c], Len(trace[c]) + 1, Len(trace'[c]))
        remoteCalls == SelectSeq(newEvents,
                                 LAMBDA e : e.type \in {"submit", "poll", "fetch"})
    IN /\ Len(trace'[c]) >= Len(trace[c])
       /\ SubSeq(trace'[c], 1, Len(trace[c])) = trace[c]
       /\ from = "Submitting" => to \in {"Submitting", "Polling", "Fetching", "Failed"}
       /\ from = "Polling" => to \in {"Polling", "Fetching", "Failed"}
       /\ from = "Fetching" => to \in {"Fetching", "Done", "Failed"}
          \* Fetching is entered on a handle that reports done, and only then
       /\ (to = "Fetching" /\ from # "Fetching") =>
             \E j \in 1..Len(newEvents) : IsDoneHandle(newEvents[j])
          \* Failed is terminal, and entered from a running cycle (or from a build
          \* that failed before any cycle started)
       /\ from = "Failed" => (to = "Failed" /\ newEvents = << >>)
       /\ (to = "Failed" /\ from = "NotStarted") => trace'[c] = << >>
       /\ (to = "Failed" /\ from # "Failed") =>
             from \in {"NotStarted", "Submitting", "Polling", "Fetching"}
          \* Done is terminal for the cycle: what follows is the call returning, or
          \* the next cycle starting with its own submission
       /\ from = "Done" =>
             \/ to = "Done" /\ newEvents = << >>
             \/ to = "Submitting" /\ Len(newEvents) = 1
                   /\ newEvents[1].type = "submit"
                   /\ remoteCalls = newEvents
          \* a result is emitted exactly on reaching Done
       /\ (Len(produced'[c]) = Len(produced[c]) + 1) <=> (to = "Done" /\ from # "Done")
       /\ Len(produced'[c]) \in {Len(produced[c]), Len(produced[c]) + 1}
       /\ SubSeq(produced'[c], 1, Len(produced[c])) = produced[c]

(* C14: a cycle moves Submitting -> Polling -> Fetching -> Done and never back
   (a handle that is done when it arrives leaves Polling without a query);
   Failed is entered from Submitting, Polling or Fetching only; after Done or
   Failed the cycle makes no remote call; and the results emitted are exactly
   the cycles that reached Done. *)
C14_CycleStates ==
    /\ [](\A c \in Calls :
            /\ Len(produced[c]) = Len(SelectSeq(trace[c], IsCycleDone))
            /\ pc[c] = "returned" => IsCycleDone(trace[c][Len(trace[c])]))
    /\ [][\A c \in Calls : CycleStepAllowed(c)]_vars

(* A cycle was submitted, polled, fetched, and has reached Done. *)
C14_Witness ==
    \E c \in DOMAIN pc :
        /\ pc[c] = "returned"
        /\ Len(produced[c]) = 1
        /\ Count(trace[c], "poll") >= 2
        /\ Count(trace[c], "fetch") = 1


----------------------------------------------------------------------------
(* Properties of the inputs of a built payload, checked under SpecBuild *)

HasFrames(payload) ==
    HasFieldIn(payload, "image") \/ HasFieldIn(payload.config, "lastFrame")
HasReferences(payload) == HasFieldIn(payload.config, "referenceImages")
HasVideo(payload) == HasFieldIn(payload, "video")

(* The kinds of input a payload carries. *)
InputKinds(payload) ==
    (IF HasVideo(payload) THEN {"video"} ELSE {})
       \cup (IF HasFrames(payload) THEN {"frames"} ELSE {})
       \cup (IF HasReferences(payload) THEN {"references"} ELSE {})

(* C15: with a prior-video override, in every mode (FramesToVideo,
   ReferencesToVideo and ExtendVideo without inputVideoObject included), the
   build succeeds, the payload's video is that override and it has no first
   frame, no last frame and no reference list; and every payload built carries
   at most one kind of input among video, frames and reference list. *)
C15_OverrideVideoOnly ==
    /\ (bBuilt # None /\ bOverrideVideo # None) =>
          /\ ~Get(bBuilt).threw
          /\ HasVideo(BuiltPayload)
          /\ BuiltPayload.video = Get(bOverrideVideo)
          /\ ~HasFieldIn(BuiltPayload, "image")
          /\ ~HasFieldIn(BuiltPayload.config, "lastFrame")
          /\ ~HasFieldIn(BuiltPayload.config, "referenceImages")
    /\ HasBuilt => Cardinality(InputKinds(BuiltPayload)) <= 1

(* A FramesToVideo request with both frames, reference images, a style image
   and an inputVideoObject was built with a prior-video override. *)
C15_Witness ==
    /\ HasBuilt
    /\ bOverrideVideo # None
    /\ bParams.mode = FRAMES_TO_VIDEO
    /\ bParams.startFrame # None
    /\ bParams.endFrame # None
    /\ bParams.referenceImages = Some(<<imgHero, imgPlain>>)
    /\ bParams.styleImage # None
    /\ bParams.inputVideoObject # None


(* An image as the payload carries it. *)
AsPart(img) == [imageBytes |-> img.base64, mimeType |-> img.type]

(* The end frame in effect: the start frame when looping, else the end frame. *)
EffectiveEndFrame ==
    IF bParams.isLooping THEN bParams.startFrame ELSE bParams.endFrame

(* C16: for a FramesToVideo build without prior-video override, the payload
   has a first frame exactly when the request has a start frame, and it is that
   frame; the effective end frame is the start frame when looping (the explicit
   end frame is ignored, and there is none when the start frame is absent),
   else the explicit end frame; the payload has a last frame exactly when the
   effective end frame is present, and it is that frame. *)
C16_Frames ==
    (HasBuilt /\ bParams.mode = FRAMES_TO_VIDEO /\ bOverrideVideo = None) =>
        /\ HasFieldIn(BuiltPayload, "image") <=> (bParams.startFrame # None)
        /\ bParams.startFrame # None =>
              BuiltPayload.image = AsPart(Get(bParams.startFrame))
        /\ HasFieldIn(BuiltPayload.config, "lastFrame") <=> (EffectiveEndFrame # None)
        /\ EffectiveEndFrame # None =>
              BuiltPayload.config.lastFrame = AsPart(Get(EffectiveEndFrame))
        /\ (bParams.isLooping /\ bParams.startFrame = None) =>
              ~HasFieldIn(BuiltPayload.config, "lastFrame")
        /\ (bParams.isLooping /\ bParams.startFrame # None) =>
              BuiltPayload.config.lastFrame = AsPart(Get(bParams.startFrame))

(* A looping FramesToVideo request with a start frame and a different explicit
   end frame was built. *)
C16_Witness ==
    /\ HasBuilt
    /\ bParams.mode = FRAMES_TO_VIDEO
    /\ bOverrideVideo = None
    /\ bParams.isLooping
    /\ bParams.startFrame # None
    /\ bParams.endFrame # None
    /\ bParams.endFrame # bParams.startFrame


(* The reference images of the request; none when the list is absent. *)
RequestRefs ==
    IF bParams.referenceImages = None THEN << >> ELSE Get(bParams.referenceImages)

(* The reference list C17 describes: every reference image tagged asset, in
   input order, then the style image, if any, tagged style. *)
ExpectedReferenceList ==
    [k \in 1..Len(RequestRefs) |->
        [image |-> AsPart(RequestRefs[k]), referenceType |-> "ASSET"]]
      \o (IF bParams.styleImage = None THEN << >>
          ELSE <<[image |-> AsPart(Get(bParams.styleImage)),
                  referenceType |-> "STYLE"]>>)

(* The build is one C17 gives a reference list to. *)
ReferencesApply ==
    /\ bOverrideVideo = None
    /\ \/ bParams.mode = REFERENCES_TO_VIDEO
       \/ bParams.mode = STORY_MODE /\ Len(RequestRefs) > 0

(* C17: a build without prior-video override in ReferencesToVideo mode, or in
   StorySequence mode with a non-empty reference-image list, carries as its
   reference list every reference image tagged asset, in input order, followed
   by the style image (if present) tagged style; the field is left out when
   that list is empty; every other build (StorySequence with no reference
   image, even with a style image; the other modes; any build with a
   prior-video override) carries no reference list. *)
C17_ReferenceList ==
    HasBuilt =>
        IF ReferencesApply /\ ExpectedReferenceList # << >>
        THEN /\ HasFieldIn(BuiltPayload.config, "referenceImages")
             /\ BuiltPayload.config.referenceImages = ExpectedReferenceList
        ELSE ~HasFieldIn(BuiltPayload.config, "referenceImages")

(* A StorySequence request with two reference images, the unlabelled one first,
   and a style image was built without override. *)
C17_Witness ==
    /\ HasBuilt
    /\ bOverrideVideo = None
    /\ bParams.mode = STORY_MODE
    /\ bParams.referenceImages = Some(<<imgPlain, imgHero>>)
    /\ bParams.styleImage # None
    /\ Len(BuiltPayload.config.referenceImages) = 3
    /\ BuiltPayload.config.referenceImages[3].referenceType = "STYLE"


----------------------------------------------------------------------------
(* Properties of the submissions of a story, checked under Spec *)

(* The prompt of a payload; a payload without prompt has the empty one. *)
PromptOf(payload) == IF HasFieldIn(payload, "prompt") THEN payload.prompt ELSE ""

(* The reference images of a request; none when the list is absent. *)
RefsOf(p) == IF p.referenceImages = None THEN << >> ELSE Get(p.referenceImages)

(* A prompt followed by the labels of the request's reference images. *)
PromptWithLabels(base, p) ==
    LET labels == LabelsFrom(RefsOf(p), 1)
    IN IF labels = "" THEN base
       ELSE IF base = "" THEN labels
       ELSE base \o " " \o labels

(* The reference list of step 1: the reference images as assets, then the
   style image. *)
StoryReferenceList(p) ==
    [k \in 1..Len(RefsOf(p)) |->
        [image |-> AsPart(RefsOf(p)[k]), referenceType |-> "ASSET"]]
      \o (IF p.styleImage = None THEN << >>
          ELSE <<[image |-> AsPart(Get(p.styleImage)), referenceType |-> "STYLE"]>>)

(* What C18 says of the first submission of a story. *)
FirstStepAsClaimed(p, payload) ==
    /\ PromptOf(payload) = PromptWithLabels(Get(p.storyPrompts)[1], p)
    /\ HasFieldIn(payload.config, "aspectRatio")
    /\ payload.config.aspectRatio = p.aspectRatio
    /\ Len(RefsOf(p)) > 0 =>
          /\ HasFieldIn(payload.config, "referenceImages")
          /\ payload.config.referenceImages = StoryReferenceList(p)
    /\ ~HasFieldIn(payload, "video")

(* What C18 says of a later submission of a story, the prompt apart. *)
LaterStepInputsAsClaimed(payload, previous) ==
    /\ HasFieldIn(payload, "video")
    /\ payload.video = previous.video
    /\ ~HasFieldIn(payload.config, "aspectRatio")
    /\ ~HasFieldIn(payload.config, "referenceImages")
    /\ ~HasFieldIn(payload, "image")
    /\ ~HasFieldIn(payload.config, "lastFrame")

(* C18: in a story the prompt submitted at step k is storyPrompts[k-1] for
   every k, at step 1 followed by the reference labels and at steps k > 1 with
   nothing appended; step 1's submission carries the aspect ratio and, when
   reference images exist, the reference list, and no prior video; every step
   k > 1 carries the prior video and no aspect ratio, no reference list and no
   frames. *)
C18_StorySteps ==
    \A c \in DOMAIN pc :
        IsStoryRequest(params[c]) =>
            \A k \in 1..Len(Submissions(c)) :
                IF k = 1
                THEN FirstStepAsClaimed(params[c], Submissions(c)[1].payload)
                ELSE /\ LaterStepInputsAsClaimed(Submissions(c)[k].payload,
                                                 produced[c][k - 1])
                     /\ PromptOf(Submissions(c)[k].payload)
                           = Get(params[c].storyPrompts)[k]

(* C18, for the steps whose story prompt is not empty: the statement of C18
   holds of them; and of a later step whose story prompt is empty, all of it
   but the prompt. *)
C18_StoryStepsNonBlank ==
    \A c \in DOMAIN pc :
        IsStoryRequest(params[c]) =>
            \A k \in 1..Len(Submissions(c)) :
                IF k = 1
                THEN FirstStepAsClaimed(params[c], Submissions(c)[1].payload)
                ELSE /\ LaterStepInputsAsClaimed(Submissions(c)[k].payload,
                                                 produced[c][k - 1])
                     /\ Get(params[c].storyPrompts)[k] # "" =>
                           PromptOf(Submissions(c)[k].payload)
                              = Get(params[c].storyPrompts)[k]

(* A story has submitted its third step, with its third prompt. *)
C18_Witness ==
    \E c \in DOMAIN pc :
        /\ IsStoryRequest(params[c])
        /\ Len(Submissions(c)) = 3
        /\ PromptOf(Submissions(c)[3].payload) = "scene 3"

(* A story whose second prompt is empty has submitted its second step, with
   the request's prompt in the place of the story prompt. *)
C18_BlankStep ==
    \E c \in DOMAIN pc :
        /\ IsStoryRequest(params[c])
        /\ Len(Submissions(c)) = 2
        /\ Get(params[c].storyPrompts)[2] = ""
        /\ PromptOf(Submissions(c)[2].payload) = params[c].prompt
        /\ params[c].prompt # ""


----------------------------------------------------------------------------
(* Properties of the single-step path, checked under Spec *)

(* The request takes the single-step path: its mode is not StorySequence, or
   its story prompts are absent or empty. *)
IsSingleStepRequest(p) ==
    \/ p.mode # STORY_MODE
    \/ p.storyPrompts = None
    \/ p.storyPrompts = Some(<< >>)

(* C19: for a request that takes the single-step path (any mode but
   StorySequence, whatever its story prompts; or StorySequence with no story
   prompt), generateVideo submits at most once, and exactly once unless the
   build fails; the submission is the payload built from the request with no
   prompt override and no prior-video override (its prompt is the request's
   prompt, its video, if any, the request's inputVideoObject); one cycle runs,
   and the call resolves with that cycle's result. *)
C19_SingleStep ==
    \A c \in DOMAIN pc :
        IsSingleStepRequest(params[c]) =>
            LET p == params[c]
                subs == Submissions(c)
                built == generateVideoPayload(p, None, None)
            IN /\ Len(subs) <= 1
               /\ Len(produced[c]) <= Len(subs)
               /\ (pc[c] # "start" /\ ~built.threw) => Len(subs) = 1
               /\ (pc[c] # "start" /\ built.threw) => (Len(subs) = 0 /\ pc[c] = "failed")
               /\ Len(subs) = 1 =>
                     /\ subs[1].payload = built.payload
                     /\ p.mode # EXTEND_VIDEO =>
                           /\ PromptOf(subs[1].payload) = PromptWithLabels(p.prompt, p)
                           /\ ~HasFieldIn(subs[1].payload, "video")
                     /\ p.mode = EXTEND_VIDEO =>
                           /\ PromptOf(subs[1].payload) = p.prompt
                           /\ subs[1].payload.video = Get(p.inputVideoObject)
               /\ pc[c] = "returned" => Len(produced[c]) = 1
               /\ pc[c] = "done" <=> IsResolved(outcome[c])
               /\ pc[c] = "done" =>
                     /\ Len(produced[c]) = 1
                     /\ Get(outcome[c]).result = produced[c][1]
                     /\ produced[c][1] = OwnResult(trace[c], 1)

(* A ReferencesToVideo request that carries three story prompts ran its one
   cycle and resolved. *)
C19_Witness ==
    \E c \in DOMAIN pc :
        /\ params[c].mode = REFERENCES_TO_VIDEO
        /\ params[c].storyPrompts = Some(<<"open", "continue", "scene 3">>)
        /\ pc[c] = "done"
        /\ Count(trace[c], "submit") = 1


----------------------------------------------------------------------------
(* Properties of a rejected submission, checked under Spec *)

IsRejectedSubmit(e) == e.type = "answer" /\ e.to = "submit" /\ e.rejected

(* C20: when the submission endpoint answers a submission with a failure, the
   cycle fails there, in Submitting, with SubmissionRejected: the failure
   answers the submission made just before, it is the last event of the call (no
   poll and no fetch is made for the job, and no later step of a story is
   submitted), the job yields no result, and the call is rejected with that
   error. *)
C20_SubmissionRejected ==
    \A c \in DOMAIN pc :
        LET tr == trace[c]
        IN \A j \in 1..Len(tr) :
              IsRejectedSubmit(tr[j]) =>
                 /\ j > 1
                 /\ tr[j - 1].type = "submit"
                 /\ j = Len(tr)
                 /\ Count(CycleOf(tr, j), "poll") = 0
                 /\ Count(CycleOf(tr, j), "fetch") = 0
                 /\ Count(tr, "submit") = JobAt(tr, j)
                 /\ Len(produced[c]) = JobAt(tr, j) - 1
                 /\ pc[c] = "failed"
                 /\ IsRejectedWith(outcome[c], SubmissionRejected)

(* The first submission of a story of three prompts was rejected. *)
C20_Witness ==
    \E c \in DOMAIN pc :
        /\ IsStoryRequest(params[c])
        /\ Len(Get(params[c].storyPrompts)) = 3
        /\ Len(trace[c]) = 2
        /\ IsRejectedSubmit(trace[c][2])
        /\ pc[c] = "failed"

----------------------------------------------------------------------------
(* Properties of the response checks and of the result, checked under Spec *)

(* The done handle carries no response block. *)
LacksResponse(op) == op.response = None

(* C21: a done handle that carries no response block ends the cycle with
   GenerationFailed ("No videos generated."), not with NoAssetsProduced or
   MissingAssetLocator, and no fetch is made for that job. *)
C21_NoResponse ==
    \A c \in DOMAIN pc :
        LET tr == trace[c]
        IN \A j \in 1..Len(tr) :
              (IsDoneHandle(tr[j]) /\ LacksResponse(tr[j].value)) =>
                 /\ j = Len(tr)
                 /\ pc[c] = "failed"
                 /\ IsRejectedWith(outcome[c], "No videos generated.")
                 /\ ~IsRejectedWith(outcome[c], "No videos were generated.")
                 /\ ~IsRejectedWith(outcome[c], "Generated video is missing a URI.")
                 /\ Count(CycleOf(tr, j), "fetch") = 0

(* The second job of a story was polled to completion and its handle carried no
   response block. *)
C21_Witness ==
    \E c \in DOMAIN pc :
        /\ Len(trace[c]) > 0
        /\ IsDoneHandle(trace[c][Len(trace[c])])
        /\ trace[c][Len(trace[c])].to = "poll"
        /\ LacksResponse(trace[c][Len(trace[c])].value)
        /\ Count(trace[c], "submit") = 2
        /\ pc[c] = "failed"

(* The descriptors listed by a done handle that lists at least one. *)
Descriptors(op) == Get(Get(op.response).generatedVideos)

(* Descriptor d carries a location. *)
HasLocation(d) ==
    /\ d.video # None
    /\ Get(d.video).uri # None
    /\ Get(d.video).uri # Some(<< >>)

(* C22: when the terminal response lists at least one descriptor and the first
   one lacks a location, the cycle ends with MissingAssetLocator and no fetch is
   made, whatever the later descriptors carry. *)
C22_FirstDescriptorOnly ==
    \A c \in DOMAIN pc :
        LET tr == trace[c]
        IN \A j \in 1..Len(tr) :
              (/\ IsDoneHandle(tr[j])
               /\ ~LacksResponse(tr[j].value)
               /\ ~ListsNoAsset(tr[j].value)
               /\ ~HasLocation(Descriptors(tr[j].value)[1])) =>
                 /\ j = Len(tr)
                 /\ pc[c] = "failed"
                 /\ IsRejectedWith(outcome[c], "Generated video is missing a URI.")
                 /\ Count(CycleOf(tr, j), "fetch") = 0

(* A done handle listed two descriptors, the first without a location and the
   second with one, and the call failed. *)
C22_Witness ==
    \E c \in DOMAIN pc :
        /\ Len(trace[c]) > 0
        /\ IsDoneHandle(trace[c][Len(trace[c])])
        /\ ~LacksResponse(trace[c][Len(trace[c])].value)
        /\ ~ListsNoAsset(trace[c][Len(trace[c])].value)
        /\ Len(Descriptors(trace[c][Len(trace[c])].value)) = 2
        /\ ~HasLocation(Descriptors(trace[c][Len(trace[c])].value)[1])
        /\ HasLocation(Descriptors(trace[c][Len(trace[c])].value)[2])
        /\ pc[c] = "failed"

(* The fetch answered with a response that is not a success. *)
IsFailedFetch(e) == IsAnswer(e, "fetch") /\ ~e.value.ok

(* C23: a fetch answered with a non-success response ends the call with
   AssetFetchFailed carrying the status and status text; one fetch was made for
   that job, the job emitted no result, and nothing is submitted afterwards. *)
C23_FetchFailed ==
    \A c \in DOMAIN pc :
        LET tr == trace[c]
        IN \A j \in 1..Len(tr) :
              IsFailedFetch(tr[j]) =>
                 /\ j = Len(tr)
                 /\ pc[c] = "failed"
                 /\ IsRejectedWith(outcome[c],
                       "Failed to fetch video: " \o ToString(tr[j].value.status)
                          \o " " \o tr[j].value.statusText)
                 /\ Count(CycleOf(tr, j), "fetch") = 1
                 /\ Len(produced[c]) = JobAt(tr, j) - 1
                 /\ Count(tr, "submit") = JobAt(tr, j)

(* The fetch of the first step of a story of three prompts was answered 403. *)
C23_Witness ==
    \E c \in DOMAIN pc :
        /\ Len(trace[c]) > 0
        /\ IsFailedFetch(trace[c][Len(trace[c])])
        /\ trace[c][Len(trace[c])].value.status = 403
        /\ IsStoryRequest(params[c])
        /\ Len(Get(params[c].storyPrompts)) = 3
        /\ Count(trace[c], "submit") = 1
        /\ pc[c] = "failed"

(* What decoding gives for the locations the service answers with. *)
DecodedLocation(uri) ==
    IF uri = <<"b", "%", "2", "6", "c">> THEN <<"b", "&", "c">> ELSE uri

(* The positions of the trace where a job ended with its body read. *)
DonePositions(tr) == {j \in 1..Len(tr) : IsCycleDone(tr[j])}

(* The position of the done handle and of the fetch in the cycle that ended at
   position j. *)
DoneHandleOf(tr, j) ==
    CHOOSE h \in JobStart(tr, j)..j : IsDoneHandle(tr[h])
FetchOf(tr, j) ==
    CHOOSE h \in JobStart(tr, j)..j : tr[h].type = "fetch"

(* C24: the result a finished job emits has, as video, the video of the first
   descriptor of the done handle; as uri, that video's decoded location, which
   is the location fetched (with the key appended); as blob, the body answered
   to that fetch, and as objectUrl an address of that blob -- also when the
   handle lists several descriptors. *)
C24_ResultFields ==
    \A c \in DOMAIN pc :
        LET tr == trace[c]
        IN \A j \in DonePositions(tr) :
              LET k == JobAt(tr, j)
                  handle == tr[DoneHandleOf(tr, j)].value
                  first == Descriptors(handle)[1]
                  fetched == tr[FetchOf(tr, j)].address
              IN /\ Len(produced[c]) >= k
                 /\ produced[c][k].video = Get(first.video)
                 /\ produced[c][k].uri = DecodedLocation(Get(Get(first.video).uri))
                 /\ fetched = produced[c][k].uri \o <<"&key=", "API_KEY">>
                 /\ tr[j].value = [bytesOf |-> fetched]
                 /\ produced[c][k].blob = tr[j].value
                 /\ produced[c][k].objectUrl = [objectUrlOf |-> tr[j].value]

(* A call resolved with the result of a job whose done handle listed two
   descriptors, the first with a percent-encoded location. *)
C24_Witness ==
    \E c \in DOMAIN pc :
        /\ pc[c] = "done"
        /\ IsResolved(outcome[c])
        /\ \E j \in DonePositions(trace[c]) :
              /\ JobAt(trace[c], j) = Len(produced[c])
              /\ Len(Descriptors(trace[c][DoneHandleOf(trace[c], j)].value)) = 2
              /\ Get(outcome[c]).result.uri = <<"b", "&", "c">>
              /\ Get(outcome[c]).result = produced[c][Len(produced[c])]

----------------------------------------------------------------------------
(* Properties of the story loop's guards and of the request, checked under Spec *)

(* The story requests generateVideo is called with, and the later steps
   (0-based indices) of each. *)
StoryRequests == {p \in Requests : IsStoryRequest(p)}
LaterSteps(p) == 1..(Len(Get(p.storyPrompts)) - 1)

(* The position of the k-th submission in the trace. *)
SubmitPosition(tr, k) ==
    CHOOSE j \in 1..Len(tr) : tr[j].type = "submit" /\ JobAt(tr, j) = k

(* C25: in a story, step k > 1 is submitted only after step k-1 ended with its
   body read and its result emitted, and it carries that result's video; and
   the loop body of a later step, reached without a previous result, throws
   ChainBroken ("Previous step failed to produce a result.") and submits
   nothing. *)
C25_ChainGuard ==
    /\ \A c \in DOMAIN pc :
          LET tr == trace[c]
          IN IsStoryRequest(params[c]) =>
                \A k \in 2..Count(tr, "submit") :
                   LET at == SubmitPosition(tr, k)
                   IN /\ Len(produced[c]) >= k - 1
                      /\ IsCycleDone(tr[at - 1])
                      /\ JobAt(tr, at - 1) = k - 1
                      /\ HasFieldIn(tr[at].payload, "video")
                      /\ tr[at].payload.video = produced[c][k - 1].video
    /\ \A p \in StoryRequests :
          \A idx \in LaterSteps(p) :
             LET step == storyIteration(<< >>, p, idx, None)
             IN /\ step.pc = "failed"
                /\ step.error = Some("Previous step failed to produce a result.")
                /\ Count(step.trace, "submit") = 0

(* The third step of a story was submitted, after the second step emitted its
   result. *)
C25_Witness ==
    \E c \in DOMAIN pc :
        /\ IsStoryRequest(params[c])
        /\ Count(trace[c], "submit") = 3
        /\ Len(produced[c]) = 2
        /\ trace[c][Len(trace[c])].type = "submit"
        /\ trace[c][Len(trace[c])].payload.video = produced[c][2].video

(* C26: no step of generateVideo changes the request it was called with: every
   field keeps the value it had at the call, whether the call goes on, resolves
   or rejects; the first story step is submitted with the first story prompt
   while the request still holds its own prompt and mode. *)
C26_RequestUnchanged ==
    /\ [][params' = params]_vars
    /\ [](\A c \in Calls :
            (IsStoryRequest(params[c]) /\ Count(trace[c], "submit") >= 1) =>
               /\ params[c].prompt = "A chase"
               /\ params[c] \in Requests
               /\ PromptOf(Submissions(c)[1].payload)
                     = PromptWithLabels(Get(params[c].storyPrompts)[1], params[c]))

(* A story call has resolved after two steps, and its request still holds the
   prompt it came with, which is not the prompt that was submitted. *)
C26_Witness ==
    \E c \in DOMAIN pc :
        /\ pc[c] = "done"
        /\ IsStoryRequest(params[c])
        /\ Count(trace[c], "submit") = 2
        /\ params[c].prompt = "A chase"
        /\ params[c].mode = STORY_MODE
        /\ PromptOf(Submissions(c)[1].payload) # params[c].prompt

(* The two errors of the story loop's guards (lines 199 and 213). *)
GuardErrors ==
    {"Previous step failed to produce a result.",
     "Story Mode failed to generate any video."}

(* C27: no call is ever rejected with one of the story loop's two guard errors;
   a story that fails fails with the error of a failing answer of one of its
   cycles, which is the last event of its trace. *)
C27_GuardsNeverRaised ==
    \A c \in DOMAIN pc :
        /\ \A err \in GuardErrors : ~IsRejectedWith(outcome[c], err)
        /\ (params[c].mode = STORY_MODE /\ pc[c] = "failed") =>
              \/ /\ IsStoryRequest(params[c])
                 /\ Len(trace[c]) > 0
                 /\ IsFailure(trace[c][Len(trace[c])])
                 /\ IsRejectedWith(outcome[c], ErrorOf(trace[c][Len(trace[c])]))
              \/ /\ ~IsStoryRequest(params[c])
                 /\ outcome[c] # None
                 /\ Get(outcome[c]).error \notin GuardErrors

(* A story of three prompts failed at its third step on a handle without a
   response, after two steps emitted results. *)
C27_Witness ==
    \E c \in DOMAIN pc :
        /\ pc[c] = "failed"
        /\ IsStoryRequest(params[c])
        /\ Len(Get(params[c].storyPrompts)) = 3
        /\ Len(produced[c]) = 2
        /\ Count(trace[c], "submit") = 3
        /\ IsRejectedWith(outcome[c], "No videos generated.")

(* C28: when generateVideos answers with a handle that already reports done, the
   job is never waited for nor polled: the next event, if the handle carries a
   usable asset, is the fetch, and otherwise there is none.  When it answers
   with a handle that is not done, what follows is one wait of 10 seconds and
   then the first poll of that job. *)
C28_FirstPoll ==
    \A c \in DOMAIN pc :
        LET tr == trace[c]
        IN \A j \in 1..Len(tr) :
              IsAnswer(tr[j], "submit") =>
                 /\ tr[j].value.done =>
                       /\ Count(CycleOf(tr, j), "wait") = 0
                       /\ Count(CycleOf(tr, j), "poll") = 0
                       /\ HasUsableAsset(tr[j].value) =>
                             (j < Len(tr) /\ tr[j + 1].type = "fetch")
                       /\ ~HasUsableAsset(tr[j].value) =>
                             (j = Len(tr) /\ pc[c] = "failed")
                 /\ ~tr[j].value.done =>
                       /\ Count(SubSeq(tr, JobStart(tr, j), j), "poll") = 0
                       /\ j = Len(tr) => pc[c] = "timer"
                       /\ j < Len(tr) =>
                             /\ Len(tr) >= j + 2
                             /\ tr[j + 1] = [type |-> "wait", ms |-> 10000]
                             /\ tr[j + 2].type = "poll"
                             /\ tr[j + 2].job = tr[j].value.name

(* In one story, the first job was answered done at its submission and fetched
   at once, and the second was answered not done and polled after a wait. *)
C28_Witness ==
    \E c \in DOMAIN pc :
        LET tr == trace[c]
        IN \E j, h \in 1..Len(tr) :
              /\ IsAnswer(tr[j], "submit") /\ tr[j].value.done
              /\ JobAt(tr, j) = 1
              /\ j < Len(tr)
              /\ tr[j + 1].type = "fetch"
              /\ IsAnswer(tr[h], "submit") /\ ~tr[h].value.done
              /\ JobAt(tr, h) = 2
              /\ Len(tr) >= h + 2
              /\ tr[h + 2].type = "poll"

----------------------------------------------------------------------------
(* Properties of the form, checked under SpecForm and SpecFormUser *)

(* C29: whatever modes were selected, settings changed and initialValues
   handed over, a request the form hands to onGenerate in Story mode asks for
   the model Veo 3.1 (High Quality) at 720p; in Extend mode, for 720p; in
   References mode, for Veo 3.1, 16:9 and 720p. *)
C29_ModeRules ==
    generated # None =>
       LET request == generated[1]
       IN /\ request.mode = STORY_MODE =>
                /\ request.model = "veo-3.1-generate-preview"
                /\ request.resolution = "720p"
          /\ request.mode = EXTEND_VIDEO => request.resolution = "720p"
          /\ request.mode = REFERENCES_TO_VIDEO =>
                /\ request.model = "veo-3.1-generate-preview"
                /\ request.aspectRatio = "16:9"
                /\ request.resolution = "720p"

(* A text with a character that is not white space. *)
NonBlank(text) == \E k \in 1..Len(text) : text[k] \notin {" ", "\t", "\n"}

(* C30: from the default state, whatever scenes were added, removed and edited
   and whatever modes were selected, the form holds between 2 and 20 story
   prompts; in Story mode the submit is enabled only when every story prompt is
   non-blank, and a Story request handed to onGenerate has at least one prompt
   and no blank prompt. *)
C30_StoryPrompts ==
    /\ Len(form.storyPrompts) >= 2
    /\ Len(form.storyPrompts) <= 20
    /\ (form.generationMode = STORY_MODE /\ ENABLED handleSubmit) =>
          \A k \in 1..Len(form.storyPrompts) : NonBlank(form.storyPrompts[k])
    /\ (generated # None /\ generated[1].mode = STORY_MODE) =>
          /\ Len(generated[1].storyPrompts) >= 1
          /\ \A k \in 1..Len(generated[1].storyPrompts) :
                NonBlank(generated[1].storyPrompts[k])

(* A Story request of two prompts, both with text, was handed to onGenerate. *)
C30_Witness ==
    /\ generated # None
    /\ generated[1].mode = STORY_MODE
    /\ Len(generated[1].storyPrompts) = 2
    /\ \A k \in 1..2 : NonBlank(generated[1].storyPrompts[k])

(* The form holds twenty story prompts, the first of them with text, in Story
   mode: one more scene cannot be added, and the submit is disabled. *)
C30_AtMost ==
    /\ form.generationMode = STORY_MODE
    /\ Len(form.storyPrompts) = 20
    /\ NonBlank(form.storyPrompts[1])
    /\ ~ENABLED handleSubmit

=============================================================================
